---- MODULE Spec2Model ----
(***************************************************************************)
(* Model of the remote session driver (claudeRemote.ts) and of the smart   *)
(* continue helpers (smartContinue.ts).                                    *)
(*                                                                         *)
(* Strings that the code inspects (startsWith, includes, join, trim) are   *)
(* sequences of characters; strings the code only carries are              *)
(* TLA+ strings.  The empty string / undefined / null of an environment    *)
(* variable or of an optional text is the empty value ("" or << >>).       *)
(***************************************************************************)
EXTENDS Integers, Sequences, FiniteSets, TLC

VARIABLES
    pc,                    \* position of the driver (or of the selector run)
    store,                 \* the checkpoint store on disk (read once)
    smartContinueConfig,   \* claudeRemote.ts:163
    isCompactCommand,      \* claudeRemote.ts:102
    mode,                  \* claudeRemote.ts:112
    thinking,              \* claudeRemote.ts:132
    autoContinueCount,     \* claudeRemote.ts:159
    smartContinueCount,    \* claudeRemote.ts:161
    recentAssistantTexts,  \* claudeRemote.ts:162
    ended,                 \* messages.end() was called (claudeRemote.ts:256)
    error,                 \* the exception that left the loop body ("": none)
    message,               \* the transport event being handled (loop variable, :172)
    out,                   \* calls the driver made while handling `message`, in order
    last,                  \* name of the step taken last
    env,                   \* process.env as read by detectProvider
    resolved,              \* result of detectProvider (selector run)
    response,              \* outcome of the provider call (assessor run)
    verdict,               \* result of assessTaskCompletion (assessor run)
    signalAborted,         \* opts.signal.aborted
    turnMessage,           \* the message nextMessage returned for the current turn
    twin,                  \* gate 1 of the same run without a checkpoint config
    smartPathSettled,      \* the marker was found at a result, or the assessor said done
    autoPushed,            \* premature-stop messages pushed since the last caller message
    smartPushed,           \* smart-continue messages pushed since the last caller message
    unanswered             \* messages pushed minus turn results taken

vars == <<pc, store, smartContinueConfig, isCompactCommand, mode, thinking,
          autoContinueCount, smartContinueCount, recentAssistantTexts, ended,
          error, message, out, last, env, resolved, response, verdict,
          signalAborted, turnMessage, twin,
          smartPathSettled, autoPushed, smartPushed, unanswered>>

(***************************************************************************)
(* Bounds of the model.                                                    *)
(***************************************************************************)
MaxRetriesCfg == 1
MaxBufferCfg == 1
MaxNumTurns == 2

(***************************************************************************)
(* Character strings.                                                      *)
(***************************************************************************)
StartsWith(s, p) == Len(s) >= Len(p) /\ SubSeq(s, 1, Len(p)) = p

Includes(s, p) == \E i \in 0..(Len(s) - Len(p)) : SubSeq(s, i + 1, i + Len(p)) = p

RECURSIVE Join(_, _)
Join(texts, sep) ==
    IF Len(texts) = 0 THEN << >>
    ELSE IF Len(texts) = 1 THEN texts[1]
    ELSE texts[1] \o sep \o Join(Tail(texts), sep)

PrefixClaude == <<"c","l","a","u","d","e">>
PrefixGpt == <<"g","p","t">>
PrefixGemini == <<"g","e","m","i","n","i">>
ModelHaiku == <<"c","l","a","u","d","e","-","h","a","i","k","u","-","4","-","5","-","2","0","2","5","1","0","0","1">>
ModelGptMini == <<"g","p","t","-","4","o","-","m","i","n","i">>
ModelGeminiFlash == <<"g","e","m","i","n","i","-","2",".","0","-","f","l","a","s","h">>
CheckpointCompleteMarker == <<"[","C","H","E","C","K","P","O","I","N","T","_","C","O","M","P","L","E","T","E","]">>
Newline == <<"\n">>

(***************************************************************************)
(* smartContinue.ts: configuration.                                        *)
(***************************************************************************)
DEFAULT_SMART_CONTINUE ==
    [enabled |-> TRUE,
     model |-> ModelHaiku,
     maxRetries |-> 2,
     bufferSize |-> 5,
     completionMarker |-> CheckpointCompleteMarker,
     timeoutMs |-> 8000,
     continueMessage |-> "continueMessage:default",
     provider |-> ""]

DEFAULT_MODELS ==
    [anthropic |-> ModelHaiku, openai |-> ModelGptMini, gemini |-> ModelGeminiFlash]

NullValue == [isNull |-> TRUE]
IsNull(v) == "isNull" \in DOMAIN v

\* a function left by an exception instead of a value
Thrown(err) == [thrown |-> err]
IsThrown(v) == "thrown" \in DOMAIN v

\* thread.json is parsed, not validated (lines 181-192): the model it gives
\* may be a JSON number, which has no startsWith; the number 0 is falsy,
\* every other number is truthy
ModelNumber == <<"typeof number">>
ModelZero == <<"typeof number", "0">>
IsString(v) == v \notin {ModelNumber, ModelZero}

\* the value counts as true in a condition: neither '' nor 0
Truthy(v) == v # << >> /\ v # ModelZero

\* a || b on strings: the first one that is not empty
OrElse(a, b) == IF a # "" THEN a ELSE b

\* sc.f ?? d : the field when the JSON document carries it
Nullish(sc, f, d) == IF f \in sc.has THEN sc[f] ELSE d

loadCheckpointConfig(st) ==
    IF st.current = "missing" THEN NullValue
    ELSE IF st.current = "empty" THEN NullValue
    ELSE IF st.thread = "invalid" THEN NullValue
    ELSE IF st.thread = "smartContinue" THEN
        [enabled |-> Nullish(st.sc, "enabled", DEFAULT_SMART_CONTINUE.enabled),
         model |-> Nullish(st.sc, "model", DEFAULT_SMART_CONTINUE.model),
         maxRetries |-> Nullish(st.sc, "maxRetries", DEFAULT_SMART_CONTINUE.maxRetries),
         bufferSize |-> Nullish(st.sc, "bufferSize", DEFAULT_SMART_CONTINUE.bufferSize),
         completionMarker |-> Nullish(st.sc, "completionMarker", DEFAULT_SMART_CONTINUE.completionMarker),
         timeoutMs |-> Nullish(st.sc, "timeoutMs", DEFAULT_SMART_CONTINUE.timeoutMs),
         continueMessage |-> Nullish(st.sc, "continueMessage", DEFAULT_SMART_CONTINUE.continueMessage),
         provider |-> Nullish(st.sc, "provider", "")]
    ELSE DEFAULT_SMART_CONTINUE

(***************************************************************************)
(* smartContinue.ts: detectProvider.                                       *)
(***************************************************************************)
ProviderConfig(provider, apiKey, baseUrl, model) ==
    [provider |-> provider, apiKey |-> apiKey, baseUrl |-> baseUrl, model |-> model]

anthropicKeyOf(e) == OrElse(e.ANTHROPIC_AUTH_TOKEN, e.ANTHROPIC_API_KEY)
openaiKeyOf(e) == e.OPENAI_API_KEY
geminiKeyOf(e) == OrElse(e.GEMINI_API_KEY, e.GOOGLE_API_KEY)

anthropicBaseUrl(e) == OrElse(e.ANTHROPIC_BASE_URL, "https://api.anthropic.com")
openaiBaseUrl(e) == OrElse(e.OPENAI_BASE_URL, "https://api.openai.com")
geminiBaseUrl == "https://generativelanguage.googleapis.com"

\* config.model || DEFAULT_MODELS[p]
ModelOrDefault(config, p) == IF Truthy(config.model) THEN config.model ELSE DEFAULT_MODELS[p]

\* config.model.startsWith(prefix) ? config.model : DEFAULT_MODELS[p]
ModelIfPrefixed(config, prefix, p) ==
    IF StartsWith(config.model, prefix) THEN config.model ELSE DEFAULT_MODELS[p]

\* the probes in another order: openai before anthropic
autoDetectProvider_openaiFirst(config, e) ==
    IF openaiKeyOf(e) # "" THEN
        IF IsString(config.model)
        THEN ProviderConfig("openai", openaiKeyOf(e), openaiBaseUrl(e),
                            ModelIfPrefixed(config, PrefixGpt, "openai"))
        ELSE Thrown("TypeError")
    ELSE IF anthropicKeyOf(e) # "" THEN
        IF IsString(config.model)
        THEN ProviderConfig("anthropic", anthropicKeyOf(e), anthropicBaseUrl(e),
                            ModelIfPrefixed(config, PrefixClaude, "anthropic"))
        ELSE Thrown("TypeError")
    ELSE IF geminiKeyOf(e) # "" THEN
        IF IsString(config.model)
        THEN ProviderConfig("gemini", geminiKeyOf(e), geminiBaseUrl,
                            ModelIfPrefixed(config, PrefixGemini, "gemini"))
        ELSE Thrown("TypeError")
    ELSE NullValue

autoDetectProvider(config, e) ==
    IF anthropicKeyOf(e) # "" THEN
        IF IsString(config.model)
        THEN ProviderConfig("anthropic", anthropicKeyOf(e), anthropicBaseUrl(e),
                            ModelIfPrefixed(config, PrefixClaude, "anthropic"))
        ELSE Thrown("TypeError")
    ELSE IF openaiKeyOf(e) # "" THEN
        IF IsString(config.model)
        THEN ProviderConfig("openai", openaiKeyOf(e), openaiBaseUrl(e),
                            ModelIfPrefixed(config, PrefixGpt, "openai"))
        ELSE Thrown("TypeError")
    ELSE IF geminiKeyOf(e) # "" THEN
        IF IsString(config.model)
        THEN ProviderConfig("gemini", geminiKeyOf(e), geminiBaseUrl,
                            ModelIfPrefixed(config, PrefixGemini, "gemini"))
        ELSE Thrown("TypeError")
    ELSE NullValue

detectProvider(config, e) ==
    IF config.provider = "anthropic" /\ anthropicKeyOf(e) # "" THEN
        ProviderConfig("anthropic", anthropicKeyOf(e), anthropicBaseUrl(e),
                       ModelOrDefault(config, "anthropic"))
    ELSE IF config.provider = "openai" /\ openaiKeyOf(e) # "" THEN
        ProviderConfig("openai", openaiKeyOf(e), openaiBaseUrl(e),
                       ModelOrDefault(config, "openai"))
    ELSE IF config.provider = "gemini" /\ geminiKeyOf(e) # "" THEN
        ProviderConfig("gemini", geminiKeyOf(e), geminiBaseUrl,
                       ModelOrDefault(config, "gemini"))
    ELSE autoDetectProvider(config, e)

(***************************************************************************)
(* smartContinue.ts: extractAssistantText and assessTaskCompletion.        *)
(***************************************************************************)
RECURSIVE textBlocks(_)
textBlocks(content) ==
    IF Len(content) = 0 THEN << >>
    ELSE IF content[1].type = "text" /\ content[1].text # << >>
         THEN <<content[1].text>> \o textBlocks(Tail(content))
         ELSE textBlocks(Tail(content))

\* null is << >>: a joined text is never empty, its blocks are not
extractAssistantText(m) ==
    IF m.type # "assistant" THEN << >>
    ELSE Join(textBlocks(m.content), Newline)

\* A character is a Unicode code point: a printable ASCII character is
\* written as itself, TAB, LF, FF and CR as "\t", "\n", "\f" and "\r", every
\* other code point by its name "U+XXXX" (one element of a text).
\*
\* String.prototype.trim (lines 134, 153, 169) strips WhiteSpace and
\* LineTerminator code points: TAB, VT, FF, U+FEFF and the space separators
\* (category Zs); LF, CR, U+2028 and U+2029
WhiteSpace ==
    {"\t", "U+000B", "\f", "U+FEFF",
     " ", "U+00A0", "U+1680", "U+2000", "U+2001", "U+2002", "U+2003", "U+2004",
     "U+2005", "U+2006", "U+2007", "U+2008", "U+2009", "U+200A", "U+202F",
     "U+205F", "U+3000"}

LineTerminator == {"\n", "\r", "U+2028", "U+2029"}

IsSpace(c) == c \in WhiteSpace \cup LineTerminator

RECURSIVE TrimStart(_)
TrimStart(s) == IF Len(s) > 0 /\ IsSpace(s[1]) THEN TrimStart(Tail(s)) ELSE s

RECURSIVE TrimEnd(_)
TrimEnd(s) == IF Len(s) > 0 /\ IsSpace(s[Len(s)]) THEN TrimEnd(SubSeq(s, 1, Len(s) - 1)) ELSE s

Trim(s) == TrimEnd(TrimStart(s))

\* String.prototype.toUpperCase (lines 134, 153, 169): the code points whose
\* upper-case form (Unicode 17.0 default case conversion, the unconditional
\* special casings included) differs from themselves, each with that form;
\* some forms are several code points long
UpperCase == <<
    <<"a", <<"A">>>>, <<"b", <<"B">>>>, <<"c", <<"C">>>>, <<"d", <<"D">>>>, <<"e", <<"E">>>>,
    <<"f", <<"F">>>>, <<"g", <<"G">>>>, <<"h", <<"H">>>>, <<"i", <<"I">>>>, <<"j", <<"J">>>>,
    <<"k", <<"K">>>>, <<"l", <<"L">>>>, <<"m", <<"M">>>>, <<"n", <<"N">>>>, <<"o", <<"O">>>>,
    <<"p", <<"P">>>>, <<"q", <<"Q">>>>, <<"r", <<"R">>>>, <<"s", <<"S">>>>, <<"t", <<"T">>>>,
    <<"u", <<"U">>>>, <<"v", <<"V">>>>, <<"w", <<"W">>>>, <<"x", <<"X">>>>, <<"y", <<"Y">>>>,
    <<"z", <<"Z">>>>, <<"U+00B5", <<"U+039C">>>>, <<"U+00DF", <<"S", "S">>>>,
    <<"U+00E0", <<"U+00C0">>>>, <<"U+00E1", <<"U+00C1">>>>, <<"U+00E2", <<"U+00C2">>>>,
    <<"U+00E3", <<"U+00C3">>>>, <<"U+00E4", <<"U+00C4">>>>, <<"U+00E5", <<"U+00C5">>>>,
    <<"U+00E6", <<"U+00C6">>>>, <<"U+00E7", <<"U+00C7">>>>, <<"U+00E8", <<"U+00C8">>>>,
    <<"U+00E9", <<"U+00C9">>>>, <<"U+00EA", <<"U+00CA">>>>, <<"U+00EB", <<"U+00CB">>>>,
    <<"U+00EC", <<"U+00CC">>>>, <<"U+00ED", <<"U+00CD">>>>, <<"U+00EE", <<"U+00CE">>>>,
    <<"U+00EF", <<"U+00CF">>>>, <<"U+00F0", <<"U+00D0">>>>, <<"U+00F1", <<"U+00D1">>>>,
    <<"U+00F2", <<"U+00D2">>>>, <<"U+00F3", <<"U+00D3">>>>, <<"U+00F4", <<"U+00D4">>>>,
    <<"U+00F5", <<"U+00D5">>>>, <<"U+00F6", <<"U+00D6">>>>, <<"U+00F8", <<"U+00D8">>>>,
    <<"U+00F9", <<"U+00D9">>>>, <<"U+00FA", <<"U+00DA">>>>, <<"U+00FB", <<"U+00DB">>>>,
    <<"U+00FC", <<"U+00DC">>>>, <<"U+00FD", <<"U+00DD">>>>, <<"U+00FE", <<"U+00DE">>>>,
    <<"U+00FF", <<"U+0178">>>>, <<"U+0101", <<"U+0100">>>>, <<"U+0103", <<"U+0102">>>>,
    <<"U+0105", <<"U+0104">>>>, <<"U+0107", <<"U+0106">>>>, <<"U+0109", <<"U+0108">>>>,
    <<"U+010B", <<"U+010A">>>>, <<"U+010D", <<"U+010C">>>>, <<"U+010F", <<"U+010E">>>>,
    <<"U+0111", <<"U+0110">>>>, <<"U+0113", <<"U+0112">>>>, <<"U+0115", <<"U+0114">>>>,
    <<"U+0117", <<"U+0116">>>>, <<"U+0119", <<"U+0118">>>>, <<"U+011B", <<"U+011A">>>>,
    <<"U+011D", <<"U+011C">>>>, <<"U+011F", <<"U+011E">>>>, <<"U+0121", <<"U+0120">>>>,
    <<"U+0123", <<"U+0122">>>>, <<"U+0125", <<"U+0124">>>>, <<"U+0127", <<"U+0126">>>>,
    <<"U+0129", <<"U+0128">>>>, <<"U+012B", <<"U+012A">>>>, <<"U+012D", <<"U+012C">>>>,
    <<"U+012F", <<"U+012E">>>>, <<"U+0131", <<"I">>>>, <<"U+0133", <<"U+0132">>>>,
    <<"U+0135", <<"U+0134">>>>, <<"U+0137", <<"U+0136">>>>, <<"U+013A", <<"U+0139">>>>,
    <<"U+013C", <<"U+013B">>>>, <<"U+013E", <<"U+013D">>>>, <<"U+0140", <<"U+013F">>>>,
    <<"U+0142", <<"U+0141">>>>, <<"U+0144", <<"U+0143">>>>, <<"U+0146", <<"U+0145">>>>,
    <<"U+0148", <<"U+0147">>>>, <<"U+0149", <<"U+02BC", "N">>>>, <<"U+014B", <<"U+014A">>>>,
    <<"U+014D", <<"U+014C">>>>, <<"U+014F", <<"U+014E">>>>, <<"U+0151", <<"U+0150">>>>,
    <<"U+0153", <<"U+0152">>>>, <<"U+0155", <<"U+0154">>>>, <<"U+0157", <<"U+0156">>>>,
    <<"U+0159", <<"U+0158">>>>, <<"U+015B", <<"U+015A">>>>, <<"U+015D", <<"U+015C">>>>,
    <<"U+015F", <<"U+015E">>>>, <<"U+0161", <<"U+0160">>>>, <<"U+0163", <<"U+0162">>>>,
    <<"U+0165", <<"U+0164">>>>, <<"U+0167", <<"U+0166">>>>, <<"U+0169", <<"U+0168">>>>,
    <<"U+016B", <<"U+016A">>>>, <<"U+016D", <<"U+016C">>>>, <<"U+016F", <<"U+016E">>>>,
    <<"U+0171", <<"U+0170">>>>, <<"U+0173", <<"U+0172">>>>, <<"U+0175", <<"U+0174">>>>,
    <<"U+0177", <<"U+0176">>>>, <<"U+017A", <<"U+0179">>>>, <<"U+017C", <<"U+017B">>>>,
    <<"U+017E", <<"U+017D">>>>, <<"U+017F", <<"S">>>>, <<"U+0180", <<"U+0243">>>>,
    <<"U+0183", <<"U+0182">>>>, <<"U+0185", <<"U+0184">>>>, <<"U+0188", <<"U+0187">>>>,
    <<"U+018C", <<"U+018B">>>>, <<"U+0192", <<"U+0191">>>>, <<"U+0195", <<"U+01F6">>>>,
    <<"U+0199", <<"U+0198">>>>, <<"U+019A", <<"U+023D">>>>, <<"U+019B", <<"U+A7DC">>>>,
    <<"U+019E", <<"U+0220">>>>, <<"U+01A1", <<"U+01A0">>>>, <<"U+01A3", <<"U+01A2">>>>,
    <<"U+01A5", <<"U+01A4">>>>, <<"U+01A8", <<"U+01A7">>>>, <<"U+01AD", <<"U+01AC">>>>,
    <<"U+01B0", <<"U+01AF">>>>, <<"U+01B4", <<"U+01B3">>>>, <<"U+01B6", <<"U+01B5">>>>,
    <<"U+01B9", <<"U+01B8">>>>, <<"U+01BD", <<"U+01BC">>>>, <<"U+01BF", <<"U+01F7">>>>,
    <<"U+01C5", <<"U+01C4">>>>, <<"U+01C6", <<"U+01C4">>>>, <<"U+01C8", <<"U+01C7">>>>,
    <<"U+01C9", <<"U+01C7">>>>, <<"U+01CB", <<"U+01CA">>>>, <<"U+01CC", <<"U+01CA">>>>,
    <<"U+01CE", <<"U+01CD">>>>, <<"U+01D0", <<"U+01CF">>>>, <<"U+01D2", <<"U+01D1">>>>,
    <<"U+01D4", <<"U+01D3">>>>, <<"U+01D6", <<"U+01D5">>>>, <<"U+01D8", <<"U+01D7">>>>,
    <<"U+01DA", <<"U+01D9">>>>, <<"U+01DC", <<"U+01DB">>>>, <<"U+01DD", <<"U+018E">>>>,
    <<"U+01DF", <<"U+01DE">>>>, <<"U+01E1", <<"U+01E0">>>>, <<"U+01E3", <<"U+01E2">>>>,
    <<"U+01E5", <<"U+01E4">>>>, <<"U+01E7", <<"U+01E6">>>>, <<"U+01E9", <<"U+01E8">>>>,
    <<"U+01EB", <<"U+01EA">>>>, <<"U+01ED", <<"U+01EC">>>>, <<"U+01EF", <<"U+01EE">>>>,
    <<"U+01F0", <<"J", "U+030C">>>>, <<"U+01F2", <<"U+01F1">>>>, <<"U+01F3", <<"U+01F1">>>>,
    <<"U+01F5", <<"U+01F4">>>>, <<"U+01F9", <<"U+01F8">>>>, <<"U+01FB", <<"U+01FA">>>>,
    <<"U+01FD", <<"U+01FC">>>>, <<"U+01FF", <<"U+01FE">>>>, <<"U+0201", <<"U+0200">>>>,
    <<"U+0203", <<"U+0202">>>>, <<"U+0205", <<"U+0204">>>>, <<"U+0207", <<"U+0206">>>>,
    <<"U+0209", <<"U+0208">>>>, <<"U+020B", <<"U+020A">>>>, <<"U+020D", <<"U+020C">>>>,
    <<"U+020F", <<"U+020E">>>>, <<"U+0211", <<"U+0210">>>>, <<"U+0213", <<"U+0212">>>>,
    <<"U+0215", <<"U+0214">>>>, <<"U+0217", <<"U+0216">>>>, <<"U+0219", <<"U+0218">>>>,
    <<"U+021B", <<"U+021A">>>>, <<"U+021D", <<"U+021C">>>>, <<"U+021F", <<"U+021E">>>>,
    <<"U+0223", <<"U+0222">>>>, <<"U+0225", <<"U+0224">>>>, <<"U+0227", <<"U+0226">>>>,
    <<"U+0229", <<"U+0228">>>>, <<"U+022B", <<"U+022A">>>>, <<"U+022D", <<"U+022C">>>>,
    <<"U+022F", <<"U+022E">>>>, <<"U+0231", <<"U+0230">>>>, <<"U+0233", <<"U+0232">>>>,
    <<"U+023C", <<"U+023B">>>>, <<"U+023F", <<"U+2C7E">>>>, <<"U+0240", <<"U+2C7F">>>>,
    <<"U+0242", <<"U+0241">>>>, <<"U+0247", <<"U+0246">>>>, <<"U+0249", <<"U+0248">>>>,
    <<"U+024B", <<"U+024A">>>>, <<"U+024D", <<"U+024C">>>>, <<"U+024F", <<"U+024E">>>>,
    <<"U+0250", <<"U+2C6F">>>>, <<"U+0251", <<"U+2C6D">>>>, <<"U+0252", <<"U+2C70">>>>,
    <<"U+0253", <<"U+0181">>>>, <<"U+0254", <<"U+0186">>>>, <<"U+0256", <<"U+0189">>>>,
    <<"U+0257", <<"U+018A">>>>, <<"U+0259", <<"U+018F">>>>, <<"U+025B", <<"U+0190">>>>,
    <<"U+025C", <<"U+A7AB">>>>, <<"U+0260", <<"U+0193">>>>, <<"U+0261", <<"U+A7AC">>>>,
    <<"U+0263", <<"U+0194">>>>, <<"U+0264", <<"U+A7CB">>>>, <<"U+0265", <<"U+A78D">>>>,
    <<"U+0266", <<"U+A7AA">>>>, <<"U+0268", <<"U+0197">>>>, <<"U+0269", <<"U+0196">>>>,
    <<"U+026A", <<"U+A7AE">>>>, <<"U+026B", <<"U+2C62">>>>, <<"U+026C", <<"U+A7AD">>>>,
    <<"U+026F", <<"U+019C">>>>, <<"U+0271", <<"U+2C6E">>>>, <<"U+0272", <<"U+019D">>>>,
    <<"U+0275", <<"U+019F">>>>, <<"U+027D", <<"U+2C64">>>>, <<"U+0280", <<"U+01A6">>>>,
    <<"U+0282", <<"U+A7C5">>>>, <<"U+0283", <<"U+01A9">>>>, <<"U+0287", <<"U+A7B1">>>>,
    <<"U+0288", <<"U+01AE">>>>, <<"U+0289", <<"U+0244">>>>, <<"U+028A", <<"U+01B1">>>>,
    <<"U+028B", <<"U+01B2">>>>, <<"U+028C", <<"U+0245">>>>, <<"U+0292", <<"U+01B7">>>>,
    <<"U+029D", <<"U+A7B2">>>>, <<"U+029E", <<"U+A7B0">>>>, <<"U+0345", <<"U+0399">>>>,
    <<"U+0371", <<"U+0370">>>>, <<"U+0373", <<"U+0372">>>>, <<"U+0377", <<"U+0376">>>>,
    <<"U+037B", <<"U+03FD">>>>, <<"U+037C", <<"U+03FE">>>>, <<"U+037D", <<"U+03FF">>>>,
    <<"U+0390", <<"U+0399", "U+0308", "U+0301">>>>, <<"U+03AC", <<"U+0386">>>>,
    <<"U+03AD", <<"U+0388">>>>, <<"U+03AE", <<"U+0389">>>>, <<"U+03AF", <<"U+038A">>>>,
    <<"U+03B0", <<"U+03A5", "U+0308", "U+0301">>>>, <<"U+03B1", <<"U+0391">>>>,
    <<"U+03B2", <<"U+0392">>>>, <<"U+03B3", <<"U+0393">>>>, <<"U+03B4", <<"U+0394">>>>,
    <<"U+03B5", <<"U+0395">>>>, <<"U+03B6", <<"U+0396">>>>, <<"U+03B7", <<"U+0397">>>>,
    <<"U+03B8", <<"U+0398">>>>, <<"U+03B9", <<"U+0399">>>>, <<"U+03BA", <<"U+039A">>>>,
    <<"U+03BB", <<"U+039B">>>>, <<"U+03BC", <<"U+039C">>>>, <<"U+03BD", <<"U+039D">>>>,
    <<"U+03BE", <<"U+039E">>>>, <<"U+03BF", <<"U+039F">>>>, <<"U+03C0", <<"U+03A0">>>>,
    <<"U+03C1", <<"U+03A1">>>>, <<"U+03C2", <<"U+03A3">>>>, <<"U+03C3", <<"U+03A3">>>>,
    <<"U+03C4", <<"U+03A4">>>>, <<"U+03C5", <<"U+03A5">>>>, <<"U+03C6", <<"U+03A6">>>>,
    <<"U+03C7", <<"U+03A7">>>>, <<"U+03C8", <<"U+03A8">>>>, <<"U+03C9", <<"U+03A9">>>>,
    <<"U+03CA", <<"U+03AA">>>>, <<"U+03CB", <<"U+03AB">>>>, <<"U+03CC", <<"U+038C">>>>,
    <<"U+03CD", <<"U+038E">>>>, <<"U+03CE", <<"U+038F">>>>, <<"U+03D0", <<"U+0392">>>>,
    <<"U+03D1", <<"U+0398">>>>, <<"U+03D5", <<"U+03A6">>>>, <<"U+03D6", <<"U+03A0">>>>,
    <<"U+03D7", <<"U+03CF">>>>, <<"U+03D9", <<"U+03D8">>>>, <<"U+03DB", <<"U+03DA">>>>,
    <<"U+03DD", <<"U+03DC">>>>, <<"U+03DF", <<"U+03DE">>>>, <<"U+03E1", <<"U+03E0">>>>,
    <<"U+03E3", <<"U+03E2">>>>, <<"U+03E5", <<"U+03E4">>>>, <<"U+03E7", <<"U+03E6">>>>,
    <<"U+03E9", <<"U+03E8">>>>, <<"U+03EB", <<"U+03EA">>>>, <<"U+03ED", <<"U+03EC">>>>,
    <<"U+03EF", <<"U+03EE">>>>, <<"U+03F0", <<"U+039A">>>>, <<"U+03F1", <<"U+03A1">>>>,
    <<"U+03F2", <<"U+03F9">>>>, <<"U+03F3", <<"U+037F">>>>, <<"U+03F5", <<"U+0395">>>>,
    <<"U+03F8", <<"U+03F7">>>>, <<"U+03FB", <<"U+03FA">>>>, <<"U+0430", <<"U+0410">>>>,
    <<"U+0431", <<"U+0411">>>>, <<"U+0432", <<"U+0412">>>>, <<"U+0433", <<"U+0413">>>>,
    <<"U+0434", <<"U+0414">>>>, <<"U+0435", <<"U+0415">>>>, <<"U+0436", <<"U+0416">>>>,
    <<"U+0437", <<"U+0417">>>>, <<"U+0438", <<"U+0418">>>>, <<"U+0439", <<"U+0419">>>>,
    <<"U+043A", <<"U+041A">>>>, <<"U+043B", <<"U+041B">>>>, <<"U+043C", <<"U+041C">>>>,
    <<"U+043D", <<"U+041D">>>>, <<"U+043E", <<"U+041E">>>>, <<"U+043F", <<"U+041F">>>>,
    <<"U+0440", <<"U+0420">>>>, <<"U+0441", <<"U+0421">>>>, <<"U+0442", <<"U+0422">>>>,
    <<"U+0443", <<"U+0423">>>>, <<"U+0444", <<"U+0424">>>>, <<"U+0445", <<"U+0425">>>>,
    <<"U+0446", <<"U+0426">>>>, <<"U+0447", <<"U+0427">>>>, <<"U+0448", <<"U+0428">>>>,
    <<"U+0449", <<"U+0429">>>>, <<"U+044A", <<"U+042A">>>>, <<"U+044B", <<"U+042B">>>>,
    <<"U+044C", <<"U+042C">>>>, <<"U+044D", <<"U+042D">>>>, <<"U+044E", <<"U+042E">>>>,
    <<"U+044F", <<"U+042F">>>>, <<"U+0450", <<"U+0400">>>>, <<"U+0451", <<"U+0401">>>>,
    <<"U+0452", <<"U+0402">>>>, <<"U+0453", <<"U+0403">>>>, <<"U+0454", <<"U+0404">>>>,
    <<"U+0455", <<"U+0405">>>>, <<"U+0456", <<"U+0406">>>>, <<"U+0457", <<"U+0407">>>>,
    <<"U+0458", <<"U+0408">>>>, <<"U+0459", <<"U+0409">>>>, <<"U+045A", <<"U+040A">>>>,
    <<"U+045B", <<"U+040B">>>>, <<"U+045C", <<"U+040C">>>>, <<"U+045D", <<"U+040D">>>>,
    <<"U+045E", <<"U+040E">>>>, <<"U+045F", <<"U+040F">>>>, <<"U+0461", <<"U+0460">>>>,
    <<"U+0463", <<"U+0462">>>>, <<"U+0465", <<"U+0464">>>>, <<"U+0467", <<"U+0466">>>>,
    <<"U+0469", <<"U+0468">>>>, <<"U+046B", <<"U+046A">>>>, <<"U+046D", <<"U+046C">>>>,
    <<"U+046F", <<"U+046E">>>>, <<"U+0471", <<"U+0470">>>>, <<"U+0473", <<"U+0472">>>>,
    <<"U+0475", <<"U+0474">>>>, <<"U+0477", <<"U+0476">>>>, <<"U+0479", <<"U+0478">>>>,
    <<"U+047B", <<"U+047A">>>>, <<"U+047D", <<"U+047C">>>>, <<"U+047F", <<"U+047E">>>>,
    <<"U+0481", <<"U+0480">>>>, <<"U+048B", <<"U+048A">>>>, <<"U+048D", <<"U+048C">>>>,
    <<"U+048F", <<"U+048E">>>>, <<"U+0491", <<"U+0490">>>>, <<"U+0493", <<"U+0492">>>>,
    <<"U+0495", <<"U+0494">>>>, <<"U+0497", <<"U+0496">>>>, <<"U+0499", <<"U+0498">>>>,
    <<"U+049B", <<"U+049A">>>>, <<"U+049D", <<"U+049C">>>>, <<"U+049F", <<"U+049E">>>>,
    <<"U+04A1", <<"U+04A0">>>>, <<"U+04A3", <<"U+04A2">>>>, <<"U+04A5", <<"U+04A4">>>>,
    <<"U+04A7", <<"U+04A6">>>>, <<"U+04A9", <<"U+04A8">>>>, <<"U+04AB", <<"U+04AA">>>>,
    <<"U+04AD", <<"U+04AC">>>>, <<"U+04AF", <<"U+04AE">>>>, <<"U+04B1", <<"U+04B0">>>>,
    <<"U+04B3", <<"U+04B2">>>>, <<"U+04B5", <<"U+04B4">>>>, <<"U+04B7", <<"U+04B6">>>>,
    <<"U+04B9", <<"U+04B8">>>>, <<"U+04BB", <<"U+04BA">>>>, <<"U+04BD", <<"U+04BC">>>>,
    <<"U+04BF", <<"U+04BE">>>>, <<"U+04C2", <<"U+04C1">>>>, <<"U+04C4", <<"U+04C3">>>>,
    <<"U+04C6", <<"U+04C5">>>>, <<"U+04C8", <<"U+04C7">>>>, <<"U+04CA", <<"U+04C9">>>>,
    <<"U+04CC", <<"U+04CB">>>>, <<"U+04CE", <<"U+04CD">>>>, <<"U+04CF", <<"U+04C0">>>>,
    <<"U+04D1", <<"U+04D0">>>>, <<"U+04D3", <<"U+04D2">>>>, <<"U+04D5", <<"U+04D4">>>>,
    <<"U+04D7", <<"U+04D6">>>>, <<"U+04D9", <<"U+04D8">>>>, <<"U+04DB", <<"U+04DA">>>>,
    <<"U+04DD", <<"U+04DC">>>>, <<"U+04DF", <<"U+04DE">>>>, <<"U+04E1", <<"U+04E0">>>>,
    <<"U+04E3", <<"U+04E2">>>>, <<"U+04E5", <<"U+04E4">>>>, <<"U+04E7", <<"U+04E6">>>>,
    <<"U+04E9", <<"U+04E8">>>>, <<"U+04EB", <<"U+04EA">>>>, <<"U+04ED", <<"U+04EC">>>>,
    <<"U+04EF", <<"U+04EE">>>>, <<"U+04F1", <<"U+04F0">>>>, <<"U+04F3", <<"U+04F2">>>>,
    <<"U+04F5", <<"U+04F4">>>>, <<"U+04F7", <<"U+04F6">>>>, <<"U+04F9", <<"U+04F8">>>>,
    <<"U+04FB", <<"U+04FA">>>>, <<"U+04FD", <<"U+04FC">>>>, <<"U+04FF", <<"U+04FE">>>>,
    <<"U+0501", <<"U+0500">>>>, <<"U+0503", <<"U+0502">>>>, <<"U+0505", <<"U+0504">>>>,
    <<"U+0507", <<"U+0506">>>>, <<"U+0509", <<"U+0508">>>>, <<"U+050B", <<"U+050A">>>>,
    <<"U+050D", <<"U+050C">>>>, <<"U+050F", <<"U+050E">>>>, <<"U+0511", <<"U+0510">>>>,
    <<"U+0513", <<"U+0512">>>>, <<"U+0515", <<"U+0514">>>>, <<"U+0517", <<"U+0516">>>>,
    <<"U+0519", <<"U+0518">>>>, <<"U+051B", <<"U+051A">>>>, <<"U+051D", <<"U+051C">>>>,
    <<"U+051F", <<"U+051E">>>>, <<"U+0521", <<"U+0520">>>>, <<"U+0523", <<"U+0522">>>>,
    <<"U+0525", <<"U+0524">>>>, <<"U+0527", <<"U+0526">>>>, <<"U+0529", <<"U+0528">>>>,
    <<"U+052B", <<"U+052A">>>>, <<"U+052D", <<"U+052C">>>>, <<"U+052F", <<"U+052E">>>>,
    <<"U+0561", <<"U+0531">>>>, <<"U+0562", <<"U+0532">>>>, <<"U+0563", <<"U+0533">>>>,
    <<"U+0564", <<"U+0534">>>>, <<"U+0565", <<"U+0535">>>>, <<"U+0566", <<"U+0536">>>>,
    <<"U+0567", <<"U+0537">>>>, <<"U+0568", <<"U+0538">>>>, <<"U+0569", <<"U+0539">>>>,
    <<"U+056A", <<"U+053A">>>>, <<"U+056B", <<"U+053B">>>>, <<"U+056C", <<"U+053C">>>>,
    <<"U+056D", <<"U+053D">>>>, <<"U+056E", <<"U+053E">>>>, <<"U+056F", <<"U+053F">>>>,
    <<"U+0570", <<"U+0540">>>>, <<"U+0571", <<"U+0541">>>>, <<"U+0572", <<"U+0542">>>>,
    <<"U+0573", <<"U+0543">>>>, <<"U+0574", <<"U+0544">>>>, <<"U+0575", <<"U+0545">>>>,
    <<"U+0576", <<"U+0546">>>>, <<"U+0577", <<"U+0547">>>>, <<"U+0578", <<"U+0548">>>>,
    <<"U+0579", <<"U+0549">>>>, <<"U+057A", <<"U+054A">>>>, <<"U+057B", <<"U+054B">>>>,
    <<"U+057C", <<"U+054C">>>>, <<"U+057D", <<"U+054D">>>>, <<"U+057E", <<"U+054E">>>>,
    <<"U+057F", <<"U+054F">>>>, <<"U+0580", <<"U+0550">>>>, <<"U+0581", <<"U+0551">>>>,
    <<"U+0582", <<"U+0552">>>>, <<"U+0583", <<"U+0553">>>>, <<"U+0584", <<"U+0554">>>>,
    <<"U+0585", <<"U+0555">>>>, <<"U+0586", <<"U+0556">>>>, <<"U+0587", <<"U+0535", "U+0552">>>>,
    <<"U+10D0", <<"U+1C90">>>>, <<"U+10D1", <<"U+1C91">>>>, <<"U+10D2", <<"U+1C92">>>>,
    <<"U+10D3", <<"U+1C93">>>>, <<"U+10D4", <<"U+1C94">>>>, <<"U+10D5", <<"U+1C95">>>>,
    <<"U+10D6", <<"U+1C96">>>>, <<"U+10D7", <<"U+1C97">>>>, <<"U+10D8", <<"U+1C98">>>>,
    <<"U+10D9", <<"U+1C99">>>>, <<"U+10DA", <<"U+1C9A">>>>, <<"U+10DB", <<"U+1C9B">>>>,
    <<"U+10DC", <<"U+1C9C">>>>, <<"U+10DD", <<"U+1C9D">>>>, <<"U+10DE", <<"U+1C9E">>>>,
    <<"U+10DF", <<"U+1C9F">>>>, <<"U+10E0", <<"U+1CA0">>>>, <<"U+10E1", <<"U+1CA1">>>>,
    <<"U+10E2", <<"U+1CA2">>>>, <<"U+10E3", <<"U+1CA3">>>>, <<"U+10E4", <<"U+1CA4">>>>,
    <<"U+10E5", <<"U+1CA5">>>>, <<"U+10E6", <<"U+1CA6">>>>, <<"U+10E7", <<"U+1CA7">>>>,
    <<"U+10E8", <<"U+1CA8">>>>, <<"U+10E9", <<"U+1CA9">>>>, <<"U+10EA", <<"U+1CAA">>>>,
    <<"U+10EB", <<"U+1CAB">>>>, <<"U+10EC", <<"U+1CAC">>>>, <<"U+10ED", <<"U+1CAD">>>>,
    <<"U+10EE", <<"U+1CAE">>>>, <<"U+10EF", <<"U+1CAF">>>>, <<"U+10F0", <<"U+1CB0">>>>,
    <<"U+10F1", <<"U+1CB1">>>>, <<"U+10F2", <<"U+1CB2">>>>, <<"U+10F3", <<"U+1CB3">>>>,
    <<"U+10F4", <<"U+1CB4">>>>, <<"U+10F5", <<"U+1CB5">>>>, <<"U+10F6", <<"U+1CB6">>>>,
    <<"U+10F7", <<"U+1CB7">>>>, <<"U+10F8", <<"U+1CB8">>>>, <<"U+10F9", <<"U+1CB9">>>>,
    <<"U+10FA", <<"U+1CBA">>>>, <<"U+10FD", <<"U+1CBD">>>>, <<"U+10FE", <<"U+1CBE">>>>,
    <<"U+10FF", <<"U+1CBF">>>>, <<"U+13F8", <<"U+13F0">>>>, <<"U+13F9", <<"U+13F1">>>>,
    <<"U+13FA", <<"U+13F2">>>>, <<"U+13FB", <<"U+13F3">>>>, <<"U+13FC", <<"U+13F4">>>>,
    <<"U+13FD", <<"U+13F5">>>>, <<"U+1C80", <<"U+0412">>>>, <<"U+1C81", <<"U+0414">>>>,
    <<"U+1C82", <<"U+041E">>>>, <<"U+1C83", <<"U+0421">>>>, <<"U+1C84", <<"U+0422">>>>,
    <<"U+1C85", <<"U+0422">>>>, <<"U+1C86", <<"U+042A">>>>, <<"U+1C87", <<"U+0462">>>>,
    <<"U+1C88", <<"U+A64A">>>>, <<"U+1C8A", <<"U+1C89">>>>, <<"U+1D79", <<"U+A77D">>>>,
    <<"U+1D7D", <<"U+2C63">>>>, <<"U+1D8E", <<"U+A7C6">>>>, <<"U+1E01", <<"U+1E00">>>>,
    <<"U+1E03", <<"U+1E02">>>>, <<"U+1E05", <<"U+1E04">>>>, <<"U+1E07", <<"U+1E06">>>>,
    <<"U+1E09", <<"U+1E08">>>>, <<"U+1E0B", <<"U+1E0A">>>>, <<"U+1E0D", <<"U+1E0C">>>>,
    <<"U+1E0F", <<"U+1E0E">>>>, <<"U+1E11", <<"U+1E10">>>>, <<"U+1E13", <<"U+1E12">>>>,
    <<"U+1E15", <<"U+1E14">>>>, <<"U+1E17", <<"U+1E16">>>>, <<"U+1E19", <<"U+1E18">>>>,
    <<"U+1E1B", <<"U+1E1A">>>>, <<"U+1E1D", <<"U+1E1C">>>>, <<"U+1E1F", <<"U+1E1E">>>>,
    <<"U+1E21", <<"U+1E20">>>>, <<"U+1E23", <<"U+1E22">>>>, <<"U+1E25", <<"U+1E24">>>>,
    <<"U+1E27", <<"U+1E26">>>>, <<"U+1E29", <<"U+1E28">>>>, <<"U+1E2B", <<"U+1E2A">>>>,
    <<"U+1E2D", <<"U+1E2C">>>>, <<"U+1E2F", <<"U+1E2E">>>>, <<"U+1E31", <<"U+1E30">>>>,
    <<"U+1E33", <<"U+1E32">>>>, <<"U+1E35", <<"U+1E34">>>>, <<"U+1E37", <<"U+1E36">>>>,
    <<"U+1E39", <<"U+1E38">>>>, <<"U+1E3B", <<"U+1E3A">>>>, <<"U+1E3D", <<"U+1E3C">>>>,
    <<"U+1E3F", <<"U+1E3E">>>>, <<"U+1E41", <<"U+1E40">>>>, <<"U+1E43", <<"U+1E42">>>>,
    <<"U+1E45", <<"U+1E44">>>>, <<"U+1E47", <<"U+1E46">>>>, <<"U+1E49", <<"U+1E48">>>>,
    <<"U+1E4B", <<"U+1E4A">>>>, <<"U+1E4D", <<"U+1E4C">>>>, <<"U+1E4F", <<"U+1E4E">>>>,
    <<"U+1E51", <<"U+1E50">>>>, <<"U+1E53", <<"U+1E52">>>>, <<"U+1E55", <<"U+1E54">>>>,
    <<"U+1E57", <<"U+1E56">>>>, <<"U+1E59", <<"U+1E58">>>>, <<"U+1E5B", <<"U+1E5A">>>>,
    <<"U+1E5D", <<"U+1E5C">>>>, <<"U+1E5F", <<"U+1E5E">>>>, <<"U+1E61", <<"U+1E60">>>>,
    <<"U+1E63", <<"U+1E62">>>>, <<"U+1E65", <<"U+1E64">>>>, <<"U+1E67", <<"U+1E66">>>>,
    <<"U+1E69", <<"U+1E68">>>>, <<"U+1E6B", <<"U+1E6A">>>>, <<"U+1E6D", <<"U+1E6C">>>>,
    <<"U+1E6F", <<"U+1E6E">>>>, <<"U+1E71", <<"U+1E70">>>>, <<"U+1E73", <<"U+1E72">>>>,
    <<"U+1E75", <<"U+1E74">>>>, <<"U+1E77", <<"U+1E76">>>>, <<"U+1E79", <<"U+1E78">>>>,
    <<"U+1E7B", <<"U+1E7A">>>>, <<"U+1E7D", <<"U+1E7C">>>>, <<"U+1E7F", <<"U+1E7E">>>>,
    <<"U+1E81", <<"U+1E80">>>>, <<"U+1E83", <<"U+1E82">>>>, <<"U+1E85", <<"U+1E84">>>>,
    <<"U+1E87", <<"U+1E86">>>>, <<"U+1E89", <<"U+1E88">>>>, <<"U+1E8B", <<"U+1E8A">>>>,
    <<"U+1E8D", <<"U+1E8C">>>>, <<"U+1E8F", <<"U+1E8E">>>>, <<"U+1E91", <<"U+1E90">>>>,
    <<"U+1E93", <<"U+1E92">>>>, <<"U+1E95", <<"U+1E94">>>>, <<"U+1E96", <<"H", "U+0331">>>>,
    <<"U+1E97", <<"T", "U+0308">>>>, <<"U+1E98", <<"W", "U+030A">>>>,
    <<"U+1E99", <<"Y", "U+030A">>>>, <<"U+1E9A", <<"A", "U+02BE">>>>, <<"U+1E9B", <<"U+1E60">>>>,
    <<"U+1EA1", <<"U+1EA0">>>>, <<"U+1EA3", <<"U+1EA2">>>>, <<"U+1EA5", <<"U+1EA4">>>>,
    <<"U+1EA7", <<"U+1EA6">>>>, <<"U+1EA9", <<"U+1EA8">>>>, <<"U+1EAB", <<"U+1EAA">>>>,
    <<"U+1EAD", <<"U+1EAC">>>>, <<"U+1EAF", <<"U+1EAE">>>>, <<"U+1EB1", <<"U+1EB0">>>>,
    <<"U+1EB3", <<"U+1EB2">>>>, <<"U+1EB5", <<"U+1EB4">>>>, <<"U+1EB7", <<"U+1EB6">>>>,
    <<"U+1EB9", <<"U+1EB8">>>>, <<"U+1EBB", <<"U+1EBA">>>>, <<"U+1EBD", <<"U+1EBC">>>>,
    <<"U+1EBF", <<"U+1EBE">>>>, <<"U+1EC1", <<"U+1EC0">>>>, <<"U+1EC3", <<"U+1EC2">>>>,
    <<"U+1EC5", <<"U+1EC4">>>>, <<"U+1EC7", <<"U+1EC6">>>>, <<"U+1EC9", <<"U+1EC8">>>>,
    <<"U+1ECB", <<"U+1ECA">>>>, <<"U+1ECD", <<"U+1ECC">>>>, <<"U+1ECF", <<"U+1ECE">>>>,
    <<"U+1ED1", <<"U+1ED0">>>>, <<"U+1ED3", <<"U+1ED2">>>>, <<"U+1ED5", <<"U+1ED4">>>>,
    <<"U+1ED7", <<"U+1ED6">>>>, <<"U+1ED9", <<"U+1ED8">>>>, <<"U+1EDB", <<"U+1EDA">>>>,
    <<"U+1EDD", <<"U+1EDC">>>>, <<"U+1EDF", <<"U+1EDE">>>>, <<"U+1EE1", <<"U+1EE0">>>>,
    <<"U+1EE3", <<"U+1EE2">>>>, <<"U+1EE5", <<"U+1EE4">>>>, <<"U+1EE7", <<"U+1EE6">>>>,
    <<"U+1EE9", <<"U+1EE8">>>>, <<"U+1EEB", <<"U+1EEA">>>>, <<"U+1EED", <<"U+1EEC">>>>,
    <<"U+1EEF", <<"U+1EEE">>>>, <<"U+1EF1", <<"U+1EF0">>>>, <<"U+1EF3", <<"U+1EF2">>>>,
    <<"U+1EF5", <<"U+1EF4">>>>, <<"U+1EF7", <<"U+1EF6">>>>, <<"U+1EF9", <<"U+1EF8">>>>,
    <<"U+1EFB", <<"U+1EFA">>>>, <<"U+1EFD", <<"U+1EFC">>>>, <<"U+1EFF", <<"U+1EFE">>>>,
    <<"U+1F00", <<"U+1F08">>>>, <<"U+1F01", <<"U+1F09">>>>, <<"U+1F02", <<"U+1F0A">>>>,
    <<"U+1F03", <<"U+1F0B">>>>, <<"U+1F04", <<"U+1F0C">>>>, <<"U+1F05", <<"U+1F0D">>>>,
    <<"U+1F06", <<"U+1F0E">>>>, <<"U+1F07", <<"U+1F0F">>>>, <<"U+1F10", <<"U+1F18">>>>,
    <<"U+1F11", <<"U+1F19">>>>, <<"U+1F12", <<"U+1F1A">>>>, <<"U+1F13", <<"U+1F1B">>>>,
    <<"U+1F14", <<"U+1F1C">>>>, <<"U+1F15", <<"U+1F1D">>>>, <<"U+1F20", <<"U+1F28">>>>,
    <<"U+1F21", <<"U+1F29">>>>, <<"U+1F22", <<"U+1F2A">>>>, <<"U+1F23", <<"U+1F2B">>>>,
    <<"U+1F24", <<"U+1F2C">>>>, <<"U+1F25", <<"U+1F2D">>>>, <<"U+1F26", <<"U+1F2E">>>>,
    <<"U+1F27", <<"U+1F2F">>>>, <<"U+1F30", <<"U+1F38">>>>, <<"U+1F31", <<"U+1F39">>>>,
    <<"U+1F32", <<"U+1F3A">>>>, <<"U+1F33", <<"U+1F3B">>>>, <<"U+1F34", <<"U+1F3C">>>>,
    <<"U+1F35", <<"U+1F3D">>>>, <<"U+1F36", <<"U+1F3E">>>>, <<"U+1F37", <<"U+1F3F">>>>,
    <<"U+1F40", <<"U+1F48">>>>, <<"U+1F41", <<"U+1F49">>>>, <<"U+1F42", <<"U+1F4A">>>>,
    <<"U+1F43", <<"U+1F4B">>>>, <<"U+1F44", <<"U+1F4C">>>>, <<"U+1F45", <<"U+1F4D">>>>,
    <<"U+1F50", <<"U+03A5", "U+0313">>>>, <<"U+1F51", <<"U+1F59">>>>,
    <<"U+1F52", <<"U+03A5", "U+0313", "U+0300">>>>, <<"U+1F53", <<"U+1F5B">>>>,
    <<"U+1F54", <<"U+03A5", "U+0313", "U+0301">>>>, <<"U+1F55", <<"U+1F5D">>>>,
    <<"U+1F56", <<"U+03A5", "U+0313", "U+0342">>>>, <<"U+1F57", <<"U+1F5F">>>>,
    <<"U+1F60", <<"U+1F68">>>>, <<"U+1F61", <<"U+1F69">>>>, <<"U+1F62", <<"U+1F6A">>>>,
    <<"U+1F63", <<"U+1F6B">>>>, <<"U+1F64", <<"U+1F6C">>>>, <<"U+1F65", <<"U+1F6D">>>>,
    <<"U+1F66", <<"U+1F6E">>>>, <<"U+1F67", <<"U+1F6F">>>>, <<"U+1F70", <<"U+1FBA">>>>,
    <<"U+1F71", <<"U+1FBB">>>>, <<"U+1F72", <<"U+1FC8">>>>, <<"U+1F73", <<"U+1FC9">>>>,
    <<"U+1F74", <<"U+1FCA">>>>, <<"U+1F75", <<"U+1FCB">>>>, <<"U+1F76", <<"U+1FDA">>>>,
    <<"U+1F77", <<"U+1FDB">>>>, <<"U+1F78", <<"U+1FF8">>>>, <<"U+1F79", <<"U+1FF9">>>>,
    <<"U+1F7A", <<"U+1FEA">>>>, <<"U+1F7B", <<"U+1FEB">>>>, <<"U+1F7C", <<"U+1FFA">>>>,
    <<"U+1F7D", <<"U+1FFB">>>>, <<"U+1F80", <<"U+1F08", "U+0399">>>>,
    <<"U+1F81", <<"U+1F09", "U+0399">>>>, <<"U+1F82", <<"U+1F0A", "U+0399">>>>,
    <<"U+1F83", <<"U+1F0B", "U+0399">>>>, <<"U+1F84", <<"U+1F0C", "U+0399">>>>,
    <<"U+1F85", <<"U+1F0D", "U+0399">>>>, <<"U+1F86", <<"U+1F0E", "U+0399">>>>,
    <<"U+1F87", <<"U+1F0F", "U+0399">>>>, <<"U+1F88", <<"U+1F08", "U+0399">>>>,
    <<"U+1F89", <<"U+1F09", "U+0399">>>>, <<"U+1F8A", <<"U+1F0A", "U+0399">>>>,
    <<"U+1F8B", <<"U+1F0B", "U+0399">>>>, <<"U+1F8C", <<"U+1F0C", "U+0399">>>>,
    <<"U+1F8D", <<"U+1F0D", "U+0399">>>>, <<"U+1F8E", <<"U+1F0E", "U+0399">>>>,
    <<"U+1F8F", <<"U+1F0F", "U+0399">>>>, <<"U+1F90", <<"U+1F28", "U+0399">>>>,
    <<"U+1F91", <<"U+1F29", "U+0399">>>>, <<"U+1F92", <<"U+1F2A", "U+0399">>>>,
    <<"U+1F93", <<"U+1F2B", "U+0399">>>>, <<"U+1F94", <<"U+1F2C", "U+0399">>>>,
    <<"U+1F95", <<"U+1F2D", "U+0399">>>>, <<"U+1F96", <<"U+1F2E", "U+0399">>>>,
    <<"U+1F97", <<"U+1F2F", "U+0399">>>>, <<"U+1F98", <<"U+1F28", "U+0399">>>>,
    <<"U+1F99", <<"U+1F29", "U+0399">>>>, <<"U+1F9A", <<"U+1F2A", "U+0399">>>>,
    <<"U+1F9B", <<"U+1F2B", "U+0399">>>>, <<"U+1F9C", <<"U+1F2C", "U+0399">>>>,
    <<"U+1F9D", <<"U+1F2D", "U+0399">>>>, <<"U+1F9E", <<"U+1F2E", "U+0399">>>>,
    <<"U+1F9F", <<"U+1F2F", "U+0399">>>>, <<"U+1FA0", <<"U+1F68", "U+0399">>>>,
    <<"U+1FA1", <<"U+1F69", "U+0399">>>>, <<"U+1FA2", <<"U+1F6A", "U+0399">>>>,
    <<"U+1FA3", <<"U+1F6B", "U+0399">>>>, <<"U+1FA4", <<"U+1F6C", "U+0399">>>>,
    <<"U+1FA5", <<"U+1F6D", "U+0399">>>>, <<"U+1FA6", <<"U+1F6E", "U+0399">>>>,
    <<"U+1FA7", <<"U+1F6F", "U+0399">>>>, <<"U+1FA8", <<"U+1F68", "U+0399">>>>,
    <<"U+1FA9", <<"U+1F69", "U+0399">>>>, <<"U+1FAA", <<"U+1F6A", "U+0399">>>>,
    <<"U+1FAB", <<"U+1F6B", "U+0399">>>>, <<"U+1FAC", <<"U+1F6C", "U+0399">>>>,
    <<"U+1FAD", <<"U+1F6D", "U+0399">>>>, <<"U+1FAE", <<"U+1F6E", "U+0399">>>>,
    <<"U+1FAF", <<"U+1F6F", "U+0399">>>>, <<"U+1FB0", <<"U+1FB8">>>>, <<"U+1FB1", <<"U+1FB9">>>>,
    <<"U+1FB2", <<"U+1FBA", "U+0399">>>>, <<"U+1FB3", <<"U+0391", "U+0399">>>>,
    <<"U+1FB4", <<"U+0386", "U+0399">>>>, <<"U+1FB6", <<"U+0391", "U+0342">>>>,
    <<"U+1FB7", <<"U+0391", "U+0342", "U+0399">>>>, <<"U+1FBC", <<"U+0391", "U+0399">>>>,
    <<"U+1FBE", <<"U+0399">>>>, <<"U+1FC2", <<"U+1FCA", "U+0399">>>>,
    <<"U+1FC3", <<"U+0397", "U+0399">>>>, <<"U+1FC4", <<"U+0389", "U+0399">>>>,
    <<"U+1FC6", <<"U+0397", "U+0342">>>>, <<"U+1FC7", <<"U+0397", "U+0342", "U+0399">>>>,
    <<"U+1FCC", <<"U+0397", "U+0399">>>>, <<"U+1FD0", <<"U+1FD8">>>>, <<"U+1FD1", <<"U+1FD9">>>>,
    <<"U+1FD2", <<"U+0399", "U+0308", "U+0300">>>>, <<"U+1FD3", <<"U+0399", "U+0308", "U+0301">>>>,
    <<"U+1FD6", <<"U+0399", "U+0342">>>>, <<"U+1FD7", <<"U+0399", "U+0308", "U+0342">>>>,
    <<"U+1FE0", <<"U+1FE8">>>>, <<"U+1FE1", <<"U+1FE9">>>>,
    <<"U+1FE2", <<"U+03A5", "U+0308", "U+0300">>>>, <<"U+1FE3", <<"U+03A5", "U+0308", "U+0301">>>>,
    <<"U+1FE4", <<"U+03A1", "U+0313">>>>, <<"U+1FE5", <<"U+1FEC">>>>,
    <<"U+1FE6", <<"U+03A5", "U+0342">>>>, <<"U+1FE7", <<"U+03A5", "U+0308", "U+0342">>>>,
    <<"U+1FF2", <<"U+1FFA", "U+0399">>>>, <<"U+1FF3", <<"U+03A9", "U+0399">>>>,
    <<"U+1FF4", <<"U+038F", "U+0399">>>>, <<"U+1FF6", <<"U+03A9", "U+0342">>>>,
    <<"U+1FF7", <<"U+03A9", "U+0342", "U+0399">>>>, <<"U+1FFC", <<"U+03A9", "U+0399">>>>,
    <<"U+214E", <<"U+2132">>>>, <<"U+2170", <<"U+2160">>>>, <<"U+2171", <<"U+2161">>>>,
    <<"U+2172", <<"U+2162">>>>, <<"U+2173", <<"U+2163">>>>, <<"U+2174", <<"U+2164">>>>,
    <<"U+2175", <<"U+2165">>>>, <<"U+2176", <<"U+2166">>>>, <<"U+2177", <<"U+2167">>>>,
    <<"U+2178", <<"U+2168">>>>, <<"U+2179", <<"U+2169">>>>, <<"U+217A", <<"U+216A">>>>,
    <<"U+217B", <<"U+216B">>>>, <<"U+217C", <<"U+216C">>>>, <<"U+217D", <<"U+216D">>>>,
    <<"U+217E", <<"U+216E">>>>, <<"U+217F", <<"U+216F">>>>, <<"U+2184", <<"U+2183">>>>,
    <<"U+24D0", <<"U+24B6">>>>, <<"U+24D1", <<"U+24B7">>>>, <<"U+24D2", <<"U+24B8">>>>,
    <<"U+24D3", <<"U+24B9">>>>, <<"U+24D4", <<"U+24BA">>>>, <<"U+24D5", <<"U+24BB">>>>,
    <<"U+24D6", <<"U+24BC">>>>, <<"U+24D7", <<"U+24BD">>>>, <<"U+24D8", <<"U+24BE">>>>,
    <<"U+24D9", <<"U+24BF">>>>, <<"U+24DA", <<"U+24C0">>>>, <<"U+24DB", <<"U+24C1">>>>,
    <<"U+24DC", <<"U+24C2">>>>, <<"U+24DD", <<"U+24C3">>>>, <<"U+24DE", <<"U+24C4">>>>,
    <<"U+24DF", <<"U+24C5">>>>, <<"U+24E0", <<"U+24C6">>>>, <<"U+24E1", <<"U+24C7">>>>,
    <<"U+24E2", <<"U+24C8">>>>, <<"U+24E3", <<"U+24C9">>>>, <<"U+24E4", <<"U+24CA">>>>,
    <<"U+24E5", <<"U+24CB">>>>, <<"U+24E6", <<"U+24CC">>>>, <<"U+24E7", <<"U+24CD">>>>,
    <<"U+24E8", <<"U+24CE">>>>, <<"U+24E9", <<"U+24CF">>>>, <<"U+2C30", <<"U+2C00">>>>,
    <<"U+2C31", <<"U+2C01">>>>, <<"U+2C32", <<"U+2C02">>>>, <<"U+2C33", <<"U+2C03">>>>,
    <<"U+2C34", <<"U+2C04">>>>, <<"U+2C35", <<"U+2C05">>>>, <<"U+2C36", <<"U+2C06">>>>,
    <<"U+2C37", <<"U+2C07">>>>, <<"U+2C38", <<"U+2C08">>>>, <<"U+2C39", <<"U+2C09">>>>,
    <<"U+2C3A", <<"U+2C0A">>>>, <<"U+2C3B", <<"U+2C0B">>>>, <<"U+2C3C", <<"U+2C0C">>>>,
    <<"U+2C3D", <<"U+2C0D">>>>, <<"U+2C3E", <<"U+2C0E">>>>, <<"U+2C3F", <<"U+2C0F">>>>,
    <<"U+2C40", <<"U+2C10">>>>, <<"U+2C41", <<"U+2C11">>>>, <<"U+2C42", <<"U+2C12">>>>,
    <<"U+2C43", <<"U+2C13">>>>, <<"U+2C44", <<"U+2C14">>>>, <<"U+2C45", <<"U+2C15">>>>,
    <<"U+2C46", <<"U+2C16">>>>, <<"U+2C47", <<"U+2C17">>>>, <<"U+2C48", <<"U+2C18">>>>,
    <<"U+2C49", <<"U+2C19">>>>, <<"U+2C4A", <<"U+2C1A">>>>, <<"U+2C4B", <<"U+2C1B">>>>,
    <<"U+2C4C", <<"U+2C1C">>>>, <<"U+2C4D", <<"U+2C1D">>>>, <<"U+2C4E", <<"U+2C1E">>>>,
    <<"U+2C4F", <<"U+2C1F">>>>, <<"U+2C50", <<"U+2C20">>>>, <<"U+2C51", <<"U+2C21">>>>,
    <<"U+2C52", <<"U+2C22">>>>, <<"U+2C53", <<"U+2C23">>>>, <<"U+2C54", <<"U+2C24">>>>,
    <<"U+2C55", <<"U+2C25">>>>, <<"U+2C56", <<"U+2C26">>>>, <<"U+2C57", <<"U+2C27">>>>,
    <<"U+2C58", <<"U+2C28">>>>, <<"U+2C59", <<"U+2C29">>>>, <<"U+2C5A", <<"U+2C2A">>>>,
    <<"U+2C5B", <<"U+2C2B">>>>, <<"U+2C5C", <<"U+2C2C">>>>, <<"U+2C5D", <<"U+2C2D">>>>,
    <<"U+2C5E", <<"U+2C2E">>>>, <<"U+2C5F", <<"U+2C2F">>>>, <<"U+2C61", <<"U+2C60">>>>,
    <<"U+2C65", <<"U+023A">>>>, <<"U+2C66", <<"U+023E">>>>, <<"U+2C68", <<"U+2C67">>>>,
    <<"U+2C6A", <<"U+2C69">>>>, <<"U+2C6C", <<"U+2C6B">>>>, <<"U+2C73", <<"U+2C72">>>>,
    <<"U+2C76", <<"U+2C75">>>>, <<"U+2C81", <<"U+2C80">>>>, <<"U+2C83", <<"U+2C82">>>>,
    <<"U+2C85", <<"U+2C84">>>>, <<"U+2C87", <<"U+2C86">>>>, <<"U+2C89", <<"U+2C88">>>>,
    <<"U+2C8B", <<"U+2C8A">>>>, <<"U+2C8D", <<"U+2C8C">>>>, <<"U+2C8F", <<"U+2C8E">>>>,
    <<"U+2C91", <<"U+2C90">>>>, <<"U+2C93", <<"U+2C92">>>>, <<"U+2C95", <<"U+2C94">>>>,
    <<"U+2C97", <<"U+2C96">>>>, <<"U+2C99", <<"U+2C98">>>>, <<"U+2C9B", <<"U+2C9A">>>>,
    <<"U+2C9D", <<"U+2C9C">>>>, <<"U+2C9F", <<"U+2C9E">>>>, <<"U+2CA1", <<"U+2CA0">>>>,
    <<"U+2CA3", <<"U+2CA2">>>>, <<"U+2CA5", <<"U+2CA4">>>>, <<"U+2CA7", <<"U+2CA6">>>>,
    <<"U+2CA9", <<"U+2CA8">>>>, <<"U+2CAB", <<"U+2CAA">>>>, <<"U+2CAD", <<"U+2CAC">>>>,
    <<"U+2CAF", <<"U+2CAE">>>>, <<"U+2CB1", <<"U+2CB0">>>>, <<"U+2CB3", <<"U+2CB2">>>>,
    <<"U+2CB5", <<"U+2CB4">>>>, <<"U+2CB7", <<"U+2CB6">>>>, <<"U+2CB9", <<"U+2CB8">>>>,
    <<"U+2CBB", <<"U+2CBA">>>>, <<"U+2CBD", <<"U+2CBC">>>>, <<"U+2CBF", <<"U+2CBE">>>>,
    <<"U+2CC1", <<"U+2CC0">>>>, <<"U+2CC3", <<"U+2CC2">>>>, <<"U+2CC5", <<"U+2CC4">>>>,
    <<"U+2CC7", <<"U+2CC6">>>>, <<"U+2CC9", <<"U+2CC8">>>>, <<"U+2CCB", <<"U+2CCA">>>>,
    <<"U+2CCD", <<"U+2CCC">>>>, <<"U+2CCF", <<"U+2CCE">>>>, <<"U+2CD1", <<"U+2CD0">>>>,
    <<"U+2CD3", <<"U+2CD2">>>>, <<"U+2CD5", <<"U+2CD4">>>>, <<"U+2CD7", <<"U+2CD6">>>>,
    <<"U+2CD9", <<"U+2CD8">>>>, <<"U+2CDB", <<"U+2CDA">>>>, <<"U+2CDD", <<"U+2CDC">>>>,
    <<"U+2CDF", <<"U+2CDE">>>>, <<"U+2CE1", <<"U+2CE0">>>>, <<"U+2CE3", <<"U+2CE2">>>>,
    <<"U+2CEC", <<"U+2CEB">>>>, <<"U+2CEE", <<"U+2CED">>>>, <<"U+2CF3", <<"U+2CF2">>>>,
    <<"U+2D00", <<"U+10A0">>>>, <<"U+2D01", <<"U+10A1">>>>, <<"U+2D02", <<"U+10A2">>>>,
    <<"U+2D03", <<"U+10A3">>>>, <<"U+2D04", <<"U+10A4">>>>, <<"U+2D05", <<"U+10A5">>>>,
    <<"U+2D06", <<"U+10A6">>>>, <<"U+2D07", <<"U+10A7">>>>, <<"U+2D08", <<"U+10A8">>>>,
    <<"U+2D09", <<"U+10A9">>>>, <<"U+2D0A", <<"U+10AA">>>>, <<"U+2D0B", <<"U+10AB">>>>,
    <<"U+2D0C", <<"U+10AC">>>>, <<"U+2D0D", <<"U+10AD">>>>, <<"U+2D0E", <<"U+10AE">>>>,
    <<"U+2D0F", <<"U+10AF">>>>, <<"U+2D10", <<"U+10B0">>>>, <<"U+2D11", <<"U+10B1">>>>,
    <<"U+2D12", <<"U+10B2">>>>, <<"U+2D13", <<"U+10B3">>>>, <<"U+2D14", <<"U+10B4">>>>,
    <<"U+2D15", <<"U+10B5">>>>, <<"U+2D16", <<"U+10B6">>>>, <<"U+2D17", <<"U+10B7">>>>,
    <<"U+2D18", <<"U+10B8">>>>, <<"U+2D19", <<"U+10B9">>>>, <<"U+2D1A", <<"U+10BA">>>>,
    <<"U+2D1B", <<"U+10BB">>>>, <<"U+2D1C", <<"U+10BC">>>>, <<"U+2D1D", <<"U+10BD">>>>,
    <<"U+2D1E", <<"U+10BE">>>>, <<"U+2D1F", <<"U+10BF">>>>, <<"U+2D20", <<"U+10C0">>>>,
    <<"U+2D21", <<"U+10C1">>>>, <<"U+2D22", <<"U+10C2">>>>, <<"U+2D23", <<"U+10C3">>>>,
    <<"U+2D24", <<"U+10C4">>>>, <<"U+2D25", <<"U+10C5">>>>, <<"U+2D27", <<"U+10C7">>>>,
    <<"U+2D2D", <<"U+10CD">>>>, <<"U+A641", <<"U+A640">>>>, <<"U+A643", <<"U+A642">>>>,
    <<"U+A645", <<"U+A644">>>>, <<"U+A647", <<"U+A646">>>>, <<"U+A649", <<"U+A648">>>>,
    <<"U+A64B", <<"U+A64A">>>>, <<"U+A64D", <<"U+A64C">>>>, <<"U+A64F", <<"U+A64E">>>>,
    <<"U+A651", <<"U+A650">>>>, <<"U+A653", <<"U+A652">>>>, <<"U+A655", <<"U+A654">>>>,
    <<"U+A657", <<"U+A656">>>>, <<"U+A659", <<"U+A658">>>>, <<"U+A65B", <<"U+A65A">>>>,
    <<"U+A65D", <<"U+A65C">>>>, <<"U+A65F", <<"U+A65E">>>>, <<"U+A661", <<"U+A660">>>>,
    <<"U+A663", <<"U+A662">>>>, <<"U+A665", <<"U+A664">>>>, <<"U+A667", <<"U+A666">>>>,
    <<"U+A669", <<"U+A668">>>>, <<"U+A66B", <<"U+A66A">>>>, <<"U+A66D", <<"U+A66C">>>>,
    <<"U+A681", <<"U+A680">>>>, <<"U+A683", <<"U+A682">>>>, <<"U+A685", <<"U+A684">>>>,
    <<"U+A687", <<"U+A686">>>>, <<"U+A689", <<"U+A688">>>>, <<"U+A68B", <<"U+A68A">>>>,
    <<"U+A68D", <<"U+A68C">>>>, <<"U+A68F", <<"U+A68E">>>>, <<"U+A691", <<"U+A690">>>>,
    <<"U+A693", <<"U+A692">>>>, <<"U+A695", <<"U+A694">>>>, <<"U+A697", <<"U+A696">>>>,
    <<"U+A699", <<"U+A698">>>>, <<"U+A69B", <<"U+A69A">>>>, <<"U+A723", <<"U+A722">>>>,
    <<"U+A725", <<"U+A724">>>>, <<"U+A727", <<"U+A726">>>>, <<"U+A729", <<"U+A728">>>>,
    <<"U+A72B", <<"U+A72A">>>>, <<"U+A72D", <<"U+A72C">>>>, <<"U+A72F", <<"U+A72E">>>>,
    <<"U+A733", <<"U+A732">>>>, <<"U+A735", <<"U+A734">>>>, <<"U+A737", <<"U+A736">>>>,
    <<"U+A739", <<"U+A738">>>>, <<"U+A73B", <<"U+A73A">>>>, <<"U+A73D", <<"U+A73C">>>>,
    <<"U+A73F", <<"U+A73E">>>>, <<"U+A741", <<"U+A740">>>>, <<"U+A743", <<"U+A742">>>>,
    <<"U+A745", <<"U+A744">>>>, <<"U+A747", <<"U+A746">>>>, <<"U+A749", <<"U+A748">>>>,
    <<"U+A74B", <<"U+A74A">>>>, <<"U+A74D", <<"U+A74C">>>>, <<"U+A74F", <<"U+A74E">>>>,
    <<"U+A751", <<"U+A750">>>>, <<"U+A753", <<"U+A752">>>>, <<"U+A755", <<"U+A754">>>>,
    <<"U+A757", <<"U+A756">>>>, <<"U+A759", <<"U+A758">>>>, <<"U+A75B", <<"U+A75A">>>>,
    <<"U+A75D", <<"U+A75C">>>>, <<"U+A75F", <<"U+A75E">>>>, <<"U+A761", <<"U+A760">>>>,
    <<"U+A763", <<"U+A762">>>>, <<"U+A765", <<"U+A764">>>>, <<"U+A767", <<"U+A766">>>>,
    <<"U+A769", <<"U+A768">>>>, <<"U+A76B", <<"U+A76A">>>>, <<"U+A76D", <<"U+A76C">>>>,
    <<"U+A76F", <<"U+A76E">>>>, <<"U+A77A", <<"U+A779">>>>, <<"U+A77C", <<"U+A77B">>>>,
    <<"U+A77F", <<"U+A77E">>>>, <<"U+A781", <<"U+A780">>>>, <<"U+A783", <<"U+A782">>>>,
    <<"U+A785", <<"U+A784">>>>, <<"U+A787", <<"U+A786">>>>, <<"U+A78C", <<"U+A78B">>>>,
    <<"U+A791", <<"U+A790">>>>, <<"U+A793", <<"U+A792">>>>, <<"U+A794", <<"U+A7C4">>>>,
    <<"U+A797", <<"U+A796">>>>, <<"U+A799", <<"U+A798">>>>, <<"U+A79B", <<"U+A79A">>>>,
    <<"U+A79D", <<"U+A79C">>>>, <<"U+A79F", <<"U+A79E">>>>, <<"U+A7A1", <<"U+A7A0">>>>,
    <<"U+A7A3", <<"U+A7A2">>>>, <<"U+A7A5", <<"U+A7A4">>>>, <<"U+A7A7", <<"U+A7A6">>>>,
    <<"U+A7A9", <<"U+A7A8">>>>, <<"U+A7B5", <<"U+A7B4">>>>, <<"U+A7B7", <<"U+A7B6">>>>,
    <<"U+A7B9", <<"U+A7B8">>>>, <<"U+A7BB", <<"U+A7BA">>>>, <<"U+A7BD", <<"U+A7BC">>>>,
    <<"U+A7BF", <<"U+A7BE">>>>, <<"U+A7C1", <<"U+A7C0">>>>, <<"U+A7C3", <<"U+A7C2">>>>,
    <<"U+A7C8", <<"U+A7C7">>>>, <<"U+A7CA", <<"U+A7C9">>>>, <<"U+A7CD", <<"U+A7CC">>>>,
    <<"U+A7CF", <<"U+A7CE">>>>, <<"U+A7D1", <<"U+A7D0">>>>, <<"U+A7D3", <<"U+A7D2">>>>,
    <<"U+A7D5", <<"U+A7D4">>>>, <<"U+A7D7", <<"U+A7D6">>>>, <<"U+A7D9", <<"U+A7D8">>>>,
    <<"U+A7DB", <<"U+A7DA">>>>, <<"U+A7F6", <<"U+A7F5">>>>, <<"U+AB53", <<"U+A7B3">>>>,
    <<"U+AB70", <<"U+13A0">>>>, <<"U+AB71", <<"U+13A1">>>>, <<"U+AB72", <<"U+13A2">>>>,
    <<"U+AB73", <<"U+13A3">>>>, <<"U+AB74", <<"U+13A4">>>>, <<"U+AB75", <<"U+13A5">>>>,
    <<"U+AB76", <<"U+13A6">>>>, <<"U+AB77", <<"U+13A7">>>>, <<"U+AB78", <<"U+13A8">>>>,
    <<"U+AB79", <<"U+13A9">>>>, <<"U+AB7A", <<"U+13AA">>>>, <<"U+AB7B", <<"U+13AB">>>>,
    <<"U+AB7C", <<"U+13AC">>>>, <<"U+AB7D", <<"U+13AD">>>>, <<"U+AB7E", <<"U+13AE">>>>,
    <<"U+AB7F", <<"U+13AF">>>>, <<"U+AB80", <<"U+13B0">>>>, <<"U+AB81", <<"U+13B1">>>>,
    <<"U+AB82", <<"U+13B2">>>>, <<"U+AB83", <<"U+13B3">>>>, <<"U+AB84", <<"U+13B4">>>>,
    <<"U+AB85", <<"U+13B5">>>>, <<"U+AB86", <<"U+13B6">>>>, <<"U+AB87", <<"U+13B7">>>>,
    <<"U+AB88", <<"U+13B8">>>>, <<"U+AB89", <<"U+13B9">>>>, <<"U+AB8A", <<"U+13BA">>>>,
    <<"U+AB8B", <<"U+13BB">>>>, <<"U+AB8C", <<"U+13BC">>>>, <<"U+AB8D", <<"U+13BD">>>>,
    <<"U+AB8E", <<"U+13BE">>>>, <<"U+AB8F", <<"U+13BF">>>>, <<"U+AB90", <<"U+13C0">>>>,
    <<"U+AB91", <<"U+13C1">>>>, <<"U+AB92", <<"U+13C2">>>>, <<"U+AB93", <<"U+13C3">>>>,
    <<"U+AB94", <<"U+13C4">>>>, <<"U+AB95", <<"U+13C5">>>>, <<"U+AB96", <<"U+13C6">>>>,
    <<"U+AB97", <<"U+13C7">>>>, <<"U+AB98", <<"U+13C8">>>>, <<"U+AB99", <<"U+13C9">>>>,
    <<"U+AB9A", <<"U+13CA">>>>, <<"U+AB9B", <<"U+13CB">>>>, <<"U+AB9C", <<"U+13CC">>>>,
    <<"U+AB9D", <<"U+13CD">>>>, <<"U+AB9E", <<"U+13CE">>>>, <<"U+AB9F", <<"U+13CF">>>>,
    <<"U+ABA0", <<"U+13D0">>>>, <<"U+ABA1", <<"U+13D1">>>>, <<"U+ABA2", <<"U+13D2">>>>,
    <<"U+ABA3", <<"U+13D3">>>>, <<"U+ABA4", <<"U+13D4">>>>, <<"U+ABA5", <<"U+13D5">>>>,
    <<"U+ABA6", <<"U+13D6">>>>, <<"U+ABA7", <<"U+13D7">>>>, <<"U+ABA8", <<"U+13D8">>>>,
    <<"U+ABA9", <<"U+13D9">>>>, <<"U+ABAA", <<"U+13DA">>>>, <<"U+ABAB", <<"U+13DB">>>>,
    <<"U+ABAC", <<"U+13DC">>>>, <<"U+ABAD", <<"U+13DD">>>>, <<"U+ABAE", <<"U+13DE">>>>,
    <<"U+ABAF", <<"U+13DF">>>>, <<"U+ABB0", <<"U+13E0">>>>, <<"U+ABB1", <<"U+13E1">>>>,
    <<"U+ABB2", <<"U+13E2">>>>, <<"U+ABB3", <<"U+13E3">>>>, <<"U+ABB4", <<"U+13E4">>>>,
    <<"U+ABB5", <<"U+13E5">>>>, <<"U+ABB6", <<"U+13E6">>>>, <<"U+ABB7", <<"U+13E7">>>>,
    <<"U+ABB8", <<"U+13E8">>>>, <<"U+ABB9", <<"U+13E9">>>>, <<"U+ABBA", <<"U+13EA">>>>,
    <<"U+ABBB", <<"U+13EB">>>>, <<"U+ABBC", <<"U+13EC">>>>, <<"U+ABBD", <<"U+13ED">>>>,
    <<"U+ABBE", <<"U+13EE">>>>, <<"U+ABBF", <<"U+13EF">>>>, <<"U+FB00", <<"F", "F">>>>,
    <<"U+FB01", <<"F", "I">>>>, <<"U+FB02", <<"F", "L">>>>, <<"U+FB03", <<"F", "F", "I">>>>,
    <<"U+FB04", <<"F", "F", "L">>>>, <<"U+FB05", <<"S", "T">>>>, <<"U+FB06", <<"S", "T">>>>,
    <<"U+FB13", <<"U+0544", "U+0546">>>>, <<"U+FB14", <<"U+0544", "U+0535">>>>,
    <<"U+FB15", <<"U+0544", "U+053B">>>>, <<"U+FB16", <<"U+054E", "U+0546">>>>,
    <<"U+FB17", <<"U+0544", "U+053D">>>>, <<"U+FF41", <<"U+FF21">>>>, <<"U+FF42", <<"U+FF22">>>>,
    <<"U+FF43", <<"U+FF23">>>>, <<"U+FF44", <<"U+FF24">>>>, <<"U+FF45", <<"U+FF25">>>>,
    <<"U+FF46", <<"U+FF26">>>>, <<"U+FF47", <<"U+FF27">>>>, <<"U+FF48", <<"U+FF28">>>>,
    <<"U+FF49", <<"U+FF29">>>>, <<"U+FF4A", <<"U+FF2A">>>>, <<"U+FF4B", <<"U+FF2B">>>>,
    <<"U+FF4C", <<"U+FF2C">>>>, <<"U+FF4D", <<"U+FF2D">>>>, <<"U+FF4E", <<"U+FF2E">>>>,
    <<"U+FF4F", <<"U+FF2F">>>>, <<"U+FF50", <<"U+FF30">>>>, <<"U+FF51", <<"U+FF31">>>>,
    <<"U+FF52", <<"U+FF32">>>>, <<"U+FF53", <<"U+FF33">>>>, <<"U+FF54", <<"U+FF34">>>>,
    <<"U+FF55", <<"U+FF35">>>>, <<"U+FF56", <<"U+FF36">>>>, <<"U+FF57", <<"U+FF37">>>>,
    <<"U+FF58", <<"U+FF38">>>>, <<"U+FF59", <<"U+FF39">>>>, <<"U+FF5A", <<"U+FF3A">>>>,
    <<"U+10428", <<"U+10400">>>>, <<"U+10429", <<"U+10401">>>>, <<"U+1042A", <<"U+10402">>>>,
    <<"U+1042B", <<"U+10403">>>>, <<"U+1042C", <<"U+10404">>>>, <<"U+1042D", <<"U+10405">>>>,
    <<"U+1042E", <<"U+10406">>>>, <<"U+1042F", <<"U+10407">>>>, <<"U+10430", <<"U+10408">>>>,
    <<"U+10431", <<"U+10409">>>>, <<"U+10432", <<"U+1040A">>>>, <<"U+10433", <<"U+1040B">>>>,
    <<"U+10434", <<"U+1040C">>>>, <<"U+10435", <<"U+1040D">>>>, <<"U+10436", <<"U+1040E">>>>,
    <<"U+10437", <<"U+1040F">>>>, <<"U+10438", <<"U+10410">>>>, <<"U+10439", <<"U+10411">>>>,
    <<"U+1043A", <<"U+10412">>>>, <<"U+1043B", <<"U+10413">>>>, <<"U+1043C", <<"U+10414">>>>,
    <<"U+1043D", <<"U+10415">>>>, <<"U+1043E", <<"U+10416">>>>, <<"U+1043F", <<"U+10417">>>>,
    <<"U+10440", <<"U+10418">>>>, <<"U+10441", <<"U+10419">>>>, <<"U+10442", <<"U+1041A">>>>,
    <<"U+10443", <<"U+1041B">>>>, <<"U+10444", <<"U+1041C">>>>, <<"U+10445", <<"U+1041D">>>>,
    <<"U+10446", <<"U+1041E">>>>, <<"U+10447", <<"U+1041F">>>>, <<"U+10448", <<"U+10420">>>>,
    <<"U+10449", <<"U+10421">>>>, <<"U+1044A", <<"U+10422">>>>, <<"U+1044B", <<"U+10423">>>>,
    <<"U+1044C", <<"U+10424">>>>, <<"U+1044D", <<"U+10425">>>>, <<"U+1044E", <<"U+10426">>>>,
    <<"U+1044F", <<"U+10427">>>>, <<"U+104D8", <<"U+104B0">>>>, <<"U+104D9", <<"U+104B1">>>>,
    <<"U+104DA", <<"U+104B2">>>>, <<"U+104DB", <<"U+104B3">>>>, <<"U+104DC", <<"U+104B4">>>>,
    <<"U+104DD", <<"U+104B5">>>>, <<"U+104DE", <<"U+104B6">>>>, <<"U+104DF", <<"U+104B7">>>>,
    <<"U+104E0", <<"U+104B8">>>>, <<"U+104E1", <<"U+104B9">>>>, <<"U+104E2", <<"U+104BA">>>>,
    <<"U+104E3", <<"U+104BB">>>>, <<"U+104E4", <<"U+104BC">>>>, <<"U+104E5", <<"U+104BD">>>>,
    <<"U+104E6", <<"U+104BE">>>>, <<"U+104E7", <<"U+104BF">>>>, <<"U+104E8", <<"U+104C0">>>>,
    <<"U+104E9", <<"U+104C1">>>>, <<"U+104EA", <<"U+104C2">>>>, <<"U+104EB", <<"U+104C3">>>>,
    <<"U+104EC", <<"U+104C4">>>>, <<"U+104ED", <<"U+104C5">>>>, <<"U+104EE", <<"U+104C6">>>>,
    <<"U+104EF", <<"U+104C7">>>>, <<"U+104F0", <<"U+104C8">>>>, <<"U+104F1", <<"U+104C9">>>>,
    <<"U+104F2", <<"U+104CA">>>>, <<"U+104F3", <<"U+104CB">>>>, <<"U+104F4", <<"U+104CC">>>>,
    <<"U+104F5", <<"U+104CD">>>>, <<"U+104F6", <<"U+104CE">>>>, <<"U+104F7", <<"U+104CF">>>>,
    <<"U+104F8", <<"U+104D0">>>>, <<"U+104F9", <<"U+104D1">>>>, <<"U+104FA", <<"U+104D2">>>>,
    <<"U+104FB", <<"U+104D3">>>>, <<"U+10597", <<"U+10570">>>>, <<"U+10598", <<"U+10571">>>>,
    <<"U+10599", <<"U+10572">>>>, <<"U+1059A", <<"U+10573">>>>, <<"U+1059B", <<"U+10574">>>>,
    <<"U+1059C", <<"U+10575">>>>, <<"U+1059D", <<"U+10576">>>>, <<"U+1059E", <<"U+10577">>>>,
    <<"U+1059F", <<"U+10578">>>>, <<"U+105A0", <<"U+10579">>>>, <<"U+105A1", <<"U+1057A">>>>,
    <<"U+105A3", <<"U+1057C">>>>, <<"U+105A4", <<"U+1057D">>>>, <<"U+105A5", <<"U+1057E">>>>,
    <<"U+105A6", <<"U+1057F">>>>, <<"U+105A7", <<"U+10580">>>>, <<"U+105A8", <<"U+10581">>>>,
    <<"U+105A9", <<"U+10582">>>>, <<"U+105AA", <<"U+10583">>>>, <<"U+105AB", <<"U+10584">>>>,
    <<"U+105AC", <<"U+10585">>>>, <<"U+105AD", <<"U+10586">>>>, <<"U+105AE", <<"U+10587">>>>,
    <<"U+105AF", <<"U+10588">>>>, <<"U+105B0", <<"U+10589">>>>, <<"U+105B1", <<"U+1058A">>>>,
    <<"U+105B3", <<"U+1058C">>>>, <<"U+105B4", <<"U+1058D">>>>, <<"U+105B5", <<"U+1058E">>>>,
    <<"U+105B6", <<"U+1058F">>>>, <<"U+105B7", <<"U+10590">>>>, <<"U+105B8", <<"U+10591">>>>,
    <<"U+105B9", <<"U+10592">>>>, <<"U+105BB", <<"U+10594">>>>, <<"U+105BC", <<"U+10595">>>>,
    <<"U+10CC0", <<"U+10C80">>>>, <<"U+10CC1", <<"U+10C81">>>>, <<"U+10CC2", <<"U+10C82">>>>,
    <<"U+10CC3", <<"U+10C83">>>>, <<"U+10CC4", <<"U+10C84">>>>, <<"U+10CC5", <<"U+10C85">>>>,
    <<"U+10CC6", <<"U+10C86">>>>, <<"U+10CC7", <<"U+10C87">>>>, <<"U+10CC8", <<"U+10C88">>>>,
    <<"U+10CC9", <<"U+10C89">>>>, <<"U+10CCA", <<"U+10C8A">>>>, <<"U+10CCB", <<"U+10C8B">>>>,
    <<"U+10CCC", <<"U+10C8C">>>>, <<"U+10CCD", <<"U+10C8D">>>>, <<"U+10CCE", <<"U+10C8E">>>>,
    <<"U+10CCF", <<"U+10C8F">>>>, <<"U+10CD0", <<"U+10C90">>>>, <<"U+10CD1", <<"U+10C91">>>>,
    <<"U+10CD2", <<"U+10C92">>>>, <<"U+10CD3", <<"U+10C93">>>>, <<"U+10CD4", <<"U+10C94">>>>,
    <<"U+10CD5", <<"U+10C95">>>>, <<"U+10CD6", <<"U+10C96">>>>, <<"U+10CD7", <<"U+10C97">>>>,
    <<"U+10CD8", <<"U+10C98">>>>, <<"U+10CD9", <<"U+10C99">>>>, <<"U+10CDA", <<"U+10C9A">>>>,
    <<"U+10CDB", <<"U+10C9B">>>>, <<"U+10CDC", <<"U+10C9C">>>>, <<"U+10CDD", <<"U+10C9D">>>>,
    <<"U+10CDE", <<"U+10C9E">>>>, <<"U+10CDF", <<"U+10C9F">>>>, <<"U+10CE0", <<"U+10CA0">>>>,
    <<"U+10CE1", <<"U+10CA1">>>>, <<"U+10CE2", <<"U+10CA2">>>>, <<"U+10CE3", <<"U+10CA3">>>>,
    <<"U+10CE4", <<"U+10CA4">>>>, <<"U+10CE5", <<"U+10CA5">>>>, <<"U+10CE6", <<"U+10CA6">>>>,
    <<"U+10CE7", <<"U+10CA7">>>>, <<"U+10CE8", <<"U+10CA8">>>>, <<"U+10CE9", <<"U+10CA9">>>>,
    <<"U+10CEA", <<"U+10CAA">>>>, <<"U+10CEB", <<"U+10CAB">>>>, <<"U+10CEC", <<"U+10CAC">>>>,
    <<"U+10CED", <<"U+10CAD">>>>, <<"U+10CEE", <<"U+10CAE">>>>, <<"U+10CEF", <<"U+10CAF">>>>,
    <<"U+10CF0", <<"U+10CB0">>>>, <<"U+10CF1", <<"U+10CB1">>>>, <<"U+10CF2", <<"U+10CB2">>>>,
    <<"U+10D70", <<"U+10D50">>>>, <<"U+10D71", <<"U+10D51">>>>, <<"U+10D72", <<"U+10D52">>>>,
    <<"U+10D73", <<"U+10D53">>>>, <<"U+10D74", <<"U+10D54">>>>, <<"U+10D75", <<"U+10D55">>>>,
    <<"U+10D76", <<"U+10D56">>>>, <<"U+10D77", <<"U+10D57">>>>, <<"U+10D78", <<"U+10D58">>>>,
    <<"U+10D79", <<"U+10D59">>>>, <<"U+10D7A", <<"U+10D5A">>>>, <<"U+10D7B", <<"U+10D5B">>>>,
    <<"U+10D7C", <<"U+10D5C">>>>, <<"U+10D7D", <<"U+10D5D">>>>, <<"U+10D7E", <<"U+10D5E">>>>,
    <<"U+10D7F", <<"U+10D5F">>>>, <<"U+10D80", <<"U+10D60">>>>, <<"U+10D81", <<"U+10D61">>>>,
    <<"U+10D82", <<"U+10D62">>>>, <<"U+10D83", <<"U+10D63">>>>, <<"U+10D84", <<"U+10D64">>>>,
    <<"U+10D85", <<"U+10D65">>>>, <<"U+118C0", <<"U+118A0">>>>, <<"U+118C1", <<"U+118A1">>>>,
    <<"U+118C2", <<"U+118A2">>>>, <<"U+118C3", <<"U+118A3">>>>, <<"U+118C4", <<"U+118A4">>>>,
    <<"U+118C5", <<"U+118A5">>>>, <<"U+118C6", <<"U+118A6">>>>, <<"U+118C7", <<"U+118A7">>>>,
    <<"U+118C8", <<"U+118A8">>>>, <<"U+118C9", <<"U+118A9">>>>, <<"U+118CA", <<"U+118AA">>>>,
    <<"U+118CB", <<"U+118AB">>>>, <<"U+118CC", <<"U+118AC">>>>, <<"U+118CD", <<"U+118AD">>>>,
    <<"U+118CE", <<"U+118AE">>>>, <<"U+118CF", <<"U+118AF">>>>, <<"U+118D0", <<"U+118B0">>>>,
    <<"U+118D1", <<"U+118B1">>>>, <<"U+118D2", <<"U+118B2">>>>, <<"U+118D3", <<"U+118B3">>>>,
    <<"U+118D4", <<"U+118B4">>>>, <<"U+118D5", <<"U+118B5">>>>, <<"U+118D6", <<"U+118B6">>>>,
    <<"U+118D7", <<"U+118B7">>>>, <<"U+118D8", <<"U+118B8">>>>, <<"U+118D9", <<"U+118B9">>>>,
    <<"U+118DA", <<"U+118BA">>>>, <<"U+118DB", <<"U+118BB">>>>, <<"U+118DC", <<"U+118BC">>>>,
    <<"U+118DD", <<"U+118BD">>>>, <<"U+118DE", <<"U+118BE">>>>, <<"U+118DF", <<"U+118BF">>>>,
    <<"U+16E60", <<"U+16E40">>>>, <<"U+16E61", <<"U+16E41">>>>, <<"U+16E62", <<"U+16E42">>>>,
    <<"U+16E63", <<"U+16E43">>>>, <<"U+16E64", <<"U+16E44">>>>, <<"U+16E65", <<"U+16E45">>>>,
    <<"U+16E66", <<"U+16E46">>>>, <<"U+16E67", <<"U+16E47">>>>, <<"U+16E68", <<"U+16E48">>>>,
    <<"U+16E69", <<"U+16E49">>>>, <<"U+16E6A", <<"U+16E4A">>>>, <<"U+16E6B", <<"U+16E4B">>>>,
    <<"U+16E6C", <<"U+16E4C">>>>, <<"U+16E6D", <<"U+16E4D">>>>, <<"U+16E6E", <<"U+16E4E">>>>,
    <<"U+16E6F", <<"U+16E4F">>>>, <<"U+16E70", <<"U+16E50">>>>, <<"U+16E71", <<"U+16E51">>>>,
    <<"U+16E72", <<"U+16E52">>>>, <<"U+16E73", <<"U+16E53">>>>, <<"U+16E74", <<"U+16E54">>>>,
    <<"U+16E75", <<"U+16E55">>>>, <<"U+16E76", <<"U+16E56">>>>, <<"U+16E77", <<"U+16E57">>>>,
    <<"U+16E78", <<"U+16E58">>>>, <<"U+16E79", <<"U+16E59">>>>, <<"U+16E7A", <<"U+16E5A">>>>,
    <<"U+16E7B", <<"U+16E5B">>>>, <<"U+16E7C", <<"U+16E5C">>>>, <<"U+16E7D", <<"U+16E5D">>>>,
    <<"U+16E7E", <<"U+16E5E">>>>, <<"U+16E7F", <<"U+16E5F">>>>, <<"U+16EBB", <<"U+16EA0">>>>,
    <<"U+16EBC", <<"U+16EA1">>>>, <<"U+16EBD", <<"U+16EA2">>>>, <<"U+16EBE", <<"U+16EA3">>>>,
    <<"U+16EBF", <<"U+16EA4">>>>, <<"U+16EC0", <<"U+16EA5">>>>, <<"U+16EC1", <<"U+16EA6">>>>,
    <<"U+16EC2", <<"U+16EA7">>>>, <<"U+16EC3", <<"U+16EA8">>>>, <<"U+16EC4", <<"U+16EA9">>>>,
    <<"U+16EC5", <<"U+16EAA">>>>, <<"U+16EC6", <<"U+16EAB">>>>, <<"U+16EC7", <<"U+16EAC">>>>,
    <<"U+16EC8", <<"U+16EAD">>>>, <<"U+16EC9", <<"U+16EAE">>>>, <<"U+16ECA", <<"U+16EAF">>>>,
    <<"U+16ECB", <<"U+16EB0">>>>, <<"U+16ECC", <<"U+16EB1">>>>, <<"U+16ECD", <<"U+16EB2">>>>,
    <<"U+16ECE", <<"U+16EB3">>>>, <<"U+16ECF", <<"U+16EB4">>>>, <<"U+16ED0", <<"U+16EB5">>>>,
    <<"U+16ED1", <<"U+16EB6">>>>, <<"U+16ED2", <<"U+16EB7">>>>, <<"U+16ED3", <<"U+16EB8">>>>,
    <<"U+1E922", <<"U+1E900">>>>, <<"U+1E923", <<"U+1E901">>>>, <<"U+1E924", <<"U+1E902">>>>,
    <<"U+1E925", <<"U+1E903">>>>, <<"U+1E926", <<"U+1E904">>>>, <<"U+1E927", <<"U+1E905">>>>,
    <<"U+1E928", <<"U+1E906">>>>, <<"U+1E929", <<"U+1E907">>>>, <<"U+1E92A", <<"U+1E908">>>>,
    <<"U+1E92B", <<"U+1E909">>>>, <<"U+1E92C", <<"U+1E90A">>>>, <<"U+1E92D", <<"U+1E90B">>>>,
    <<"U+1E92E", <<"U+1E90C">>>>, <<"U+1E92F", <<"U+1E90D">>>>, <<"U+1E930", <<"U+1E90E">>>>,
    <<"U+1E931", <<"U+1E90F">>>>, <<"U+1E932", <<"U+1E910">>>>, <<"U+1E933", <<"U+1E911">>>>,
    <<"U+1E934", <<"U+1E912">>>>, <<"U+1E935", <<"U+1E913">>>>, <<"U+1E936", <<"U+1E914">>>>,
    <<"U+1E937", <<"U+1E915">>>>, <<"U+1E938", <<"U+1E916">>>>, <<"U+1E939", <<"U+1E917">>>>,
    <<"U+1E93A", <<"U+1E918">>>>, <<"U+1E93B", <<"U+1E919">>>>, <<"U+1E93C", <<"U+1E91A">>>>,
    <<"U+1E93D", <<"U+1E91B">>>>, <<"U+1E93E", <<"U+1E91C">>>>, <<"U+1E93F", <<"U+1E91D">>>>,
    <<"U+1E940", <<"U+1E91E">>>>, <<"U+1E941", <<"U+1E91F">>>>, <<"U+1E942", <<"U+1E920">>>>,
    <<"U+1E943", <<"U+1E921">>>> >>

LowerCase == { UpperCase[i][1] : i \in 1..Len(UpperCase) }

\* the upper-case form of one code point, a text
UpperOf(c) ==
    IF c \in LowerCase
    THEN UpperCase[CHOOSE i \in 1..Len(UpperCase) : UpperCase[i][1] = c][2]
    ELSE <<c>>

RECURSIVE ToUpperCase(_)
ToUpperCase(s) == IF Len(s) = 0 THEN << >> ELSE UpperOf(s[1]) \o ToUpperCase(Tail(s))

AnswerDone == <<"D","O","N","E">>

\* callAnthropic / callOpenAI / callGemini: the normalized text of a response,
\* for a response the call returns; the other outcomes throw
callerReturns(resp) == resp.kind = "ok"
callerAnswer(resp) == ToUpperCase(Trim(resp.text))

Call(op, arg, site) == [op |-> op, arg |-> arg, site |-> site]

\* no provider taken for a finished task
assessTaskCompletion_doneWithoutProvider(recentTexts, config, e, resp) ==
    LET pcfg == detectProvider(config, e) IN
    IF IsThrown(pcfg)
    THEN [isDone |-> FALSE, calls |-> << >>, threw |-> TRUE, error |-> pcfg.thrown]
    ELSE IF IsNull(pcfg)
    THEN [isDone |-> TRUE, calls |-> << >>, threw |-> FALSE, error |-> ""]
    ELSE [isDone |-> callerReturns(resp) /\ callerAnswer(resp) = AnswerDone,
          calls |-> <<Call("caller", pcfg.provider, 238)>>,
          threw |-> FALSE, error |-> ""]

\* the try/catch of lines 236-244 left out: a failed call throws
assessTaskCompletion_noCatch(recentTexts, config, e, resp) ==
    LET pcfg == detectProvider(config, e) IN
    IF IsThrown(pcfg)
    THEN [isDone |-> FALSE, calls |-> << >>, threw |-> TRUE, error |-> pcfg.thrown]
    ELSE IF IsNull(pcfg)
    THEN [isDone |-> FALSE, calls |-> << >>, threw |-> FALSE, error |-> ""]
    ELSE [isDone |-> callerReturns(resp) /\ callerAnswer(resp) = AnswerDone,
          calls |-> <<Call("caller", pcfg.provider, 238)>>,
          threw |-> ~callerReturns(resp),
          error |-> IF callerReturns(resp) THEN "" ELSE "Error"]

\* the verdict, the calls made to reach it, and whether an exception left
\* the function and which: detectProvider (line 216) stands outside the try
\* block, the catch of line 241 takes every failure of the call
assessTaskCompletion(recentTexts, config, e, resp) ==
    LET pcfg == detectProvider(config, e) IN
    IF IsThrown(pcfg)
    THEN [isDone |-> FALSE, calls |-> << >>, threw |-> TRUE, error |-> pcfg.thrown]
    ELSE IF IsNull(pcfg)
    THEN [isDone |-> FALSE, calls |-> << >>, threw |-> FALSE, error |-> ""]
    ELSE IF pcfg.provider \notin {"anthropic", "openai", "gemini"}
         THEN [isDone |-> FALSE, calls |-> << >>, threw |-> FALSE, error |-> ""]
    ELSE [isDone |-> callerReturns(resp) /\ callerAnswer(resp) = AnswerDone,
          calls |-> <<Call("caller", pcfg.provider, 238)>>,
          threw |-> FALSE, error |-> ""]

(***************************************************************************)
(* claudeRemote.ts: the driver.  A driver state d is the record of the     *)
(* driver's variables; the operators below are the pieces of the loop body *)
(* and return the driver state they leave.                                 *)
(***************************************************************************)
MAX_AUTO_CONTINUE == 3

AutoContinueMessage == "Continue. You stopped before completing the task. Pick up where you left off."

\* parsers/specialCommands
parseSpecialCommand(text) ==
    IF text = "/clear" THEN "clear"
    ELSE IF text = "/compact" THEN "compact"
    ELSE "none"

emit(d, op, arg, site) == [d EXCEPT !.out = Append(@, Call(op, arg, site))]

\* the comparison of line 134 left out: every call notifies
updateThinking_always(d, newThinking, site) ==
    emit([d EXCEPT !.thinking = newThinking], "onThinkingChange", newThinking, site)

updateThinking(d, newThinking, site) ==
    IF d.thinking # newThinking
    THEN emit([d EXCEPT !.thinking = newThinking], "onThinkingChange", newThinking, site)
    ELSE d

\* leaving the try block: the finally clause, then the function is over
returnFromLoop(d) == [updateThinking(d, FALSE, 284) EXCEPT !.pc = "done"]

\* lines 276-285: the exception d.error reached the catch clause, which
\* swallows an AbortError and throws every other error on; then finally
catchBlock(d) ==
    LET d1 == emit(d, "catch", d.error, 276) IN
    IF d.error = "AbortError" THEN [updateThinking(d1, FALSE, 284) EXCEPT !.pc = "done"]
    ELSE [updateThinking(emit(d1, "throw", d.error, 281), FALSE, 284) EXCEPT !.pc = "threw"]

\* a return inside the for-await (lines 257, 270): the loop is left and the
\* transport's iterator is asked to close; the finally clause waits for it
leaveLoop(d) == [d EXCEPT !.pc = "returning"]

\* an exception inside the for-await body: the iterator is asked to close
\* before the exception reaches the catch clause
throwFromLoop(d, err) == [d EXCEPT !.pc = "returning", !.error = err]

\* the iterator's return() has settled: the return goes on to the finally
\* clause, the exception to the catch clause
iteratorReturned(d) == IF d.error = "" THEN returnFromLoop(d) ELSE catchBlock(d)

\* pop() instead of shift(): the newest entry is dropped
pushText_dropsNewest(d, text, bufferSize) ==
    LET pushed == Append(d.recentAssistantTexts, text) IN
    IF Len(pushed) > bufferSize
    THEN emit([d EXCEPT !.recentAssistantTexts = SubSeq(pushed, 1, Len(pushed) - 1)],
              "shift", pushed[Len(pushed)], 180)
    ELSE [d EXCEPT !.recentAssistantTexts = pushed]

\* recentAssistantTexts.push(text), then shift() when the length exceeds bufferSize
pushText(d, text, bufferSize) ==
    LET pushed == Append(d.recentAssistantTexts, text) IN
    IF Len(pushed) > bufferSize
    THEN emit([d EXCEPT !.recentAssistantTexts = Tail(pushed)], "shift", Head(pushed), 180)
    ELSE [d EXCEPT !.recentAssistantTexts = pushed]

bufferAssistantText(d, m, config) ==
    LET assistantText == extractAssistantText(m) IN
    IF assistantText # << >> /\ ~IsNull(config)
    THEN pushText(d, assistantText, config.bufferSize)
    ELSE d

\* turn results kept from the caller's sink
forwardMessage_exceptResults(d, m) ==
    IF m.type = "result" THEN d ELSE emit(d, "onMessage", m, 185)

forwardMessage(d, m) == emit(d, "onMessage", m, 185)

handleInit(d, m) ==
    LET d1 == updateThinking(d, TRUE, 190) IN
    IF m.session_id # ""
    THEN [emit(d1, "awaitFileExist", m.session_id, 199) EXCEPT !.pc = "awaitFile"]
    ELSE d1

sessionFileAwaited(d, m, found) ==
    LET d1 == emit(d, "found", found, 199)
    IN [emit(d1, "onSessionFound", m.session_id, 201) EXCEPT !.pc = "stream"]

\* the streak limit compared with <= instead of <
gate1_limitInclusive(d, m) ==
    /\ m.subtype = "success"
    /\ m.num_turns <= 1
    /\ ~d.isCompactCommand
    /\ d.autoContinueCount <= MAX_AUTO_CONTINUE

gate1(d, m) ==
    /\ m.subtype = "success"
    /\ m.num_turns <= 1
    /\ ~d.isCompactCommand
    /\ d.autoContinueCount < MAX_AUTO_CONTINUE

autoContinue(d) ==
    LET d1 == [d EXCEPT !.autoContinueCount = @ + 1]
        d2 == emit(d1, "push", AutoContinueMessage, 217)
    IN updateThinking(d2, TRUE, 218)

\* the enabled flag of line 225 left out
gate2Guard_ignoresEnabled(d, config) ==
    /\ ~IsNull(config)
    /\ ~d.isCompactCommand
    /\ d.smartContinueCount < config.maxRetries

\* the budget test of line 225 taken inclusively
gate2Guard_budgetInclusive(d, config) ==
    /\ ~IsNull(config)
    /\ config.enabled
    /\ ~d.isCompactCommand
    /\ d.smartContinueCount <= config.maxRetries

gate2Guard(d, config) ==
    /\ ~IsNull(config)
    /\ config.enabled
    /\ ~d.isCompactCommand
    /\ d.smartContinueCount < config.maxRetries

\* only the newest buffered text is searched for the marker
hasCompletionMarker_newestOnly(texts, config) ==
    Len(texts) > 0 /\ Includes(texts[Len(texts)], config.completionMarker)

hasCompletionMarker(texts, config) ==
    \E i \in 1..Len(texts) : Includes(texts[i], config.completionMarker)

\* the num_turns > 1 condition of line 227 left out
shouldAssess_anyTurnCount(d, m, config) ==
    /\ gate2Guard(d, config)
    /\ ~hasCompletionMarker(d.recentAssistantTexts, config)
    /\ m.subtype = "success"

shouldAssess(d, m, config) ==
    /\ gate2Guard(d, config)
    /\ ~hasCompletionMarker(d.recentAssistantTexts, config)
    /\ m.subtype = "success"
    /\ m.num_turns > 1

\* the increment of line 231 left out
smartContinue_uncounted(d, config) ==
    LET d2 == emit(d, "push", config.continueMessage, 233)
    IN [updateThinking(d2, TRUE, 234) EXCEPT !.pc = "stream"]

smartContinue(d, config) ==
    LET d1 == [d EXCEPT !.smartContinueCount = @ + 1]
        d2 == emit(d1, "push", config.continueMessage, 233)
    IN [updateThinking(d2, TRUE, 234) EXCEPT !.pc = "stream"]

\* the ready signal sent after the next message is requested
turnComplete_readyLate(d) ==
    LET d1 == IF d.isCompactCommand
              THEN [emit(d, "onCompletionEvent", "Compaction completed", 245)
                        EXCEPT !.isCompactCommand = FALSE]
              ELSE d
        d2 == emit(d1, "nextMessage", "", 254)
    IN [emit(d2, "onReady", "", 251) EXCEPT !.pc = "nextMessage"]

\* the smart-continue count started afresh with every completed turn
turnComplete_resetsSmartCount(d) ==
    LET d1 == IF d.isCompactCommand
              THEN [emit(d, "onCompletionEvent", "Compaction completed", 245)
                        EXCEPT !.isCompactCommand = FALSE]
              ELSE d
        d2 == emit([d1 EXCEPT !.smartContinueCount = 0], "onReady", "", 251)
    IN [emit(d2, "nextMessage", "", 254) EXCEPT !.pc = "nextMessage"]

turnComplete(d) ==
    LET d1 == IF d.isCompactCommand
              THEN [emit(d, "onCompletionEvent", "Compaction completed", 245)
                        EXCEPT !.isCompactCommand = FALSE]
              ELSE d
        d2 == emit(d1, "onReady", "", 251)
    IN [emit(d2, "nextMessage", "", 254) EXCEPT !.pc = "nextMessage"]

\* the provider's answer is still out
ResponsePending == [kind |-> "pending", text |-> << >>]

\* line 229 up to the point where it yields: assessTaskCompletion runs to its
\* first await, so the provider is resolved in environment e (line 216) and
\* the call of line 238 is made at once
beginAssessment(d, config, e) ==
    LET d1 == emit(d, "assessTaskCompletion", "", 229)
        v == assessTaskCompletion(d1.recentAssistantTexts, config, e, ResponsePending)
    IN [d1 EXCEPT !.out = @ \o v.calls, !.pc = "assess"]

\* the reset of line 221 left out
resetStreak_missing(d) == d

resetStreak(d) == [d EXCEPT !.autoContinueCount = 0]

\* the continue of line 219 left out: gate 2 and the completion follow gate 1
handleResult_fallsThrough(d, m, config, e) ==
    LET d1 == updateThinking(d, FALSE, 207)
        d2 == resetStreak(IF gate1(d1, m) THEN autoContinue(d1) ELSE d1)
    IN IF shouldAssess(d2, m, config)
       THEN beginAssessment(d2, config, e)
       ELSE turnComplete(d2)

\* a turn result, up to the await of line 229 or to the end of the iteration
handleResult(d, m, config, e) ==
    LET d1 == updateThinking(d, FALSE, 207) IN
    IF gate1(d1, m) THEN autoContinue(d1)
    ELSE LET d2 == resetStreak(d1) IN
         IF shouldAssess(d2, m, config)
         THEN beginAssessment(d2, config, e)
         ELSE turnComplete(d2)

\* the verdict is not looked at: the continuation is pushed in any case
assessed_ignoresVerdict(d, config, v) ==
    LET d2 == emit(d, "isDone", v.isDone, 229)
    IN smartContinue(d2, config)

\* the await of line 229 resumes with verdict v; the call that led to it
\* was made when the assessment began
assessed(d, config, v) ==
    LET d2 == emit(d, "isDone", v.isDone, 229)
    IN IF v.threw THEN throwFromLoop(d, v.error)
       ELSE IF ~v.isDone THEN smartContinue(d2, config) ELSE turnComplete(d2)

\* the buffer started afresh with every message of the caller
nextMessageReturned_clearsBuffer(d, next) ==
    LET d1 == emit(d, "next", next, 254) IN
    IF IsNull(next)
    THEN leaveLoop([emit(d1, "end", "", 256) EXCEPT !.ended = TRUE])
    ELSE [emit([d1 EXCEPT !.mode = next.mode, !.recentAssistantTexts = << >>],
               "push", next.message, 260)
              EXCEPT !.pc = "stream"]

\* the caller's message is taken but not pushed
nextMessageReturned_noPush(d, next) ==
    LET d1 == emit(d, "next", next, 254) IN
    IF IsNull(next)
    THEN leaveLoop([emit(d1, "end", "", 256) EXCEPT !.ended = TRUE])
    ELSE [d1 EXCEPT !.mode = next.mode, !.pc = "stream"]

nextMessageReturned(d, next) ==
    LET d1 == emit(d, "next", next, 254) IN
    IF IsNull(next)
    THEN leaveLoop([emit(d1, "end", "", 256) EXCEPT !.ended = TRUE])
    ELSE [emit([d1 EXCEPT !.mode = next.mode], "push", next.message, 260)
              EXCEPT !.pc = "stream"]

isAborted(toolCallId) == toolCallId = "toolAborted"

\* only the first content block is looked at
handleToolResult_firstOnly(d, m) ==
    IF /\ Len(m.content) > 0
       /\ m.content[1].type = "tool_result"
       /\ m.content[1].tool_use_id # ""
       /\ isAborted(m.content[1].tool_use_id)
    THEN leaveLoop(d)
    ELSE d

handleToolResult(d, m) ==
    IF \E i \in 1..Len(m.content) :
          /\ m.content[i].type = "tool_result"
          /\ m.content[i].tool_use_id # ""
          /\ isAborted(m.content[i].tool_use_id)
    THEN leaveLoop(d)
    ELSE d

\* one iteration of the loop body, up to its first await or to its end
loopBody(d, m, config, e) ==
    LET d0 == [d EXCEPT !.out = << >>]
        d1 == bufferAssistantText(d0, m, config)
        d2 == forwardMessage(d1, m)
    IN IF m.type = "system" /\ m.subtype = "init" THEN handleInit(d2, m)
       ELSE IF m.type = "result" THEN handleResult(d2, m, config, e)
       ELSE IF m.type = "user" THEN handleToolResult(d2, m)
       ELSE d2

\* claudeRemote is called: it asks for the first message and waits (line 82)
start(d) == [emit([d EXCEPT !.out = << >>], "nextMessage", "", 82) EXCEPT !.pc = "firstMessage"]

\* lines 83-168: the first message came, the special commands, the first push
prologue(d, initial, st) ==
    LET d1 == d IN
    IF IsNull(initial) THEN [d1 EXCEPT !.pc = "done"]
    ELSE IF parseSpecialCommand(initial.message) = "clear"
    THEN [emit(emit(d1, "onCompletionEvent", "Context was reset", 93),
               "onSessionReset", "", 96) EXCEPT !.pc = "done"]
    ELSE LET d2 == IF parseSpecialCommand(initial.message) = "compact"
                   THEN [emit(d1, "onCompletionEvent", "Compaction started", 107)
                             EXCEPT !.isCompactCommand = TRUE]
                   ELSE d1
             d3 == emit([d2 EXCEPT !.mode = initial.mode], "push", initial.message, 145)
             d4 == [d3 EXCEPT !.smartContinueConfig = loadCheckpointConfig(st)]
         IN [updateThinking(d4, TRUE, 168) EXCEPT !.pc = "stream"]

\* the for-await fails: catch (AbortError is swallowed), then finally
\* the finally clause of lines 283-285 left out
streamFailed_noFinally(d, err) ==
    LET d1 == emit([d EXCEPT !.out = << >>, !.error = err], "catch", err, 276) IN
    IF err = "AbortError" THEN [d1 EXCEPT !.pc = "done"]
    ELSE [emit(d1, "throw", err, 281) EXCEPT !.pc = "threw"]

streamFailed(d, err) == catchBlock([d EXCEPT !.out = << >>, !.error = err])

\* the for-await is over: the transport has no more events
streamEnded(d) == returnFromLoop([d EXCEPT !.out = << >>])

(***************************************************************************)
(* Inputs.                                                                 *)
(***************************************************************************)
TextWorking == <<"o","k">>
TextWithMarker == <<"!">> \o CheckpointCompleteMarker
CustomMarker == <<"o","k","\n","!">>

Block(type, text, toolUseId) == [type |-> type, text |-> text, tool_use_id |-> toolUseId]

Msg(type, subtype, numTurns, content, sessionId) ==
    [type |-> type, subtype |-> subtype, num_turns |-> numTurns,
     content |-> content, session_id |-> sessionId]

NoMessage == Msg("none", "", 0, << >>, "")

AssistantMessages ==
    { Msg("assistant", "", 0, c, "") :
        c \in { <<Block("tool_use", << >>, "toolOk")>>,
                <<Block("text", << >>, "")>>,
                <<Block("text", TextWorking, "")>>,
                <<Block("text", TextWorking, ""), Block("tool_use", << >>, "toolOk"),
                  Block("text", TextWithMarker, "")>> } }

SystemMessages ==
    { Msg("system", "init", 0, << >>, id) : id \in {"", "session1"} }
        \cup { Msg("system", "status", 0, << >>, "") }

ResultMessages ==
    { Msg("result", st, n, << >>, "") :
        st \in {"success", "error_during_execution"}, n \in 0..MaxNumTurns }

UserMessages ==
    { Msg("user", "", 0, c, "") :
        c \in { << >>,
                <<Block("tool_result", << >>, "toolOk")>>,
                <<Block("tool_result", << >>, "toolOk"),
                  Block("tool_result", << >>, "toolAborted")>> } }

SDKMessages == AssistantMessages \cup SystemMessages \cup ResultMessages \cup UserMessages

CallerMessages ==
    { [message |-> "hello", mode |-> "default"],
      [message |-> "/compact", mode |-> "plan"],
      [message |-> "/clear", mode |-> "default"] }

\* modules/watcher/awaitFileExist: true when the file appeared, false when
\* the wait gave up
awaitFileExistResults == BOOLEAN

\* what the for-await can throw: the SDK's AbortError, or anything else
StreamErrors == {"AbortError", "Error", "TypeError"}

NoDoc == [has |-> {}]

ScDocs ==
    { [has |-> {"enabled", "maxRetries", "bufferSize"},
       enabled |-> en, maxRetries |-> r, bufferSize |-> b] :
        en \in BOOLEAN, r \in 0..MaxRetriesCfg, b \in 0..MaxBufferCfg }
    \cup
    { [has |-> {"maxRetries", "bufferSize", "completionMarker", "continueMessage"},
       maxRetries |-> MaxRetriesCfg, bufferSize |-> MaxBufferCfg + 1,
       completionMarker |-> CustomMarker, continueMessage |-> "continueMessage:custom"],
      [has |-> {"model", "maxRetries", "bufferSize"},
       model |-> ModelNumber, maxRetries |-> MaxRetriesCfg, bufferSize |-> MaxBufferCfg] }

Stores ==
    { [current |-> "missing", thread |-> "missing", sc |-> NoDoc],
      [current |-> "empty", thread |-> "missing", sc |-> NoDoc],
      [current |-> "id", thread |-> "invalid", sc |-> NoDoc],
      [current |-> "id", thread |-> "missing", sc |-> NoDoc],
      [current |-> "id", thread |-> "other", sc |-> NoDoc] }
    \cup { [current |-> "id", thread |-> "smartContinue", sc |-> doc] : doc \in ScDocs }

EnvOf(token, apiKey, baseUrl, openaiKey, openaiUrl, geminiKey, googleKey) ==
    [ANTHROPIC_AUTH_TOKEN |-> token, ANTHROPIC_API_KEY |-> apiKey,
     ANTHROPIC_BASE_URL |-> baseUrl, OPENAI_API_KEY |-> openaiKey,
     OPENAI_BASE_URL |-> openaiUrl, GEMINI_API_KEY |-> geminiKey,
     GOOGLE_API_KEY |-> googleKey]

EmptyEnv == EnvOf("", "", "", "", "", "", "")

Envs ==
    { EnvOf(t, k, u, ok, ou, gk, gg) :
        t \in {"", "anthropic-token"}, k \in {"", "anthropic-key"},
        u \in {"", "http://anthropic.proxy"}, ok \in {"", "openai-key"},
        ou \in {"", "http://openai.proxy"}, gk \in {"", "gemini-key"},
        gg \in {"", "google-key"} }

\* environments of the driver runs
DriverEnvs == { EmptyEnv, EnvOf("", "anthropic-key", "", "", "", "", "") }

ProviderResponses ==
    { [kind |-> "ok", text |-> <<"D","O","N","E">>],
      [kind |-> "ok", text |-> <<" ","d","o","n","e","\n">>],
      [kind |-> "ok", text |-> <<"D","O","N","E","\r","\n">>],
      [kind |-> "ok", text |-> <<"\f","d","o","n","e">>],
      [kind |-> "ok", text |-> <<"D","O","N","E","U+2003">>],
      [kind |-> "ok", text |-> <<"U+3000","d","o","n","e","U+2028">>],
      [kind |-> "ok", text |-> <<"d","U+0131","n","e">>],
      [kind |-> "ok", text |-> <<"N","O","T","_","D","O","N","E">>],
      [kind |-> "ok", text |-> << >>],
      [kind |-> "ok", text |-> <<"D","o","n","e",".">>],
      [kind |-> "malformed", text |-> << >>],
      [kind |-> "http_error", text |-> << >>],
      [kind |-> "timeout", text |-> << >>] }

(***************************************************************************)
(* The driver as a state machine.                                          *)
(***************************************************************************)
Driver ==
    [pc |-> pc, smartContinueConfig |-> smartContinueConfig,
     isCompactCommand |-> isCompactCommand, mode |-> mode, thinking |-> thinking,
     autoContinueCount |-> autoContinueCount, smartContinueCount |-> smartContinueCount,
     recentAssistantTexts |-> recentAssistantTexts, ended |-> ended,
     error |-> error, out |-> out]

Becomes(d) ==
    /\ pc' = d.pc
    /\ smartContinueConfig' = d.smartContinueConfig
    /\ isCompactCommand' = d.isCompactCommand
    /\ mode' = d.mode
    /\ thinking' = d.thinking
    /\ autoContinueCount' = d.autoContinueCount
    /\ smartContinueCount' = d.smartContinueCount
    /\ recentAssistantTexts' = d.recentAssistantTexts
    /\ ended' = d.ended
    /\ error' = d.error
    /\ out' = d.out

\* The driver started on the same first message with no checkpoint config:
\* what gate 1 reads and writes, and whether it fired at the last result.
NoTwin == [autoContinueCount |-> 0, isCompactCommand |-> FALSE, fired |-> FALSE]

TwinDriver ==
    [Driver EXCEPT !.smartContinueConfig = NullValue,
                   !.autoContinueCount = twin.autoContinueCount,
                   !.isCompactCommand = twin.isCompactCommand,
                   !.out = << >>]

TwinOf(d, fired) ==
    [autoContinueCount |-> d.autoContinueCount,
     isCompactCommand |-> d.isCompactCommand,
     fired |-> fired]

TwinTakes(m) ==
    IF m.type = "result"
    THEN LET d == handleResult(TwinDriver, m, NullValue, env)
         IN TwinOf(d, \E i \in 1..Len(d.out) : d.out[i].op = "push")
    ELSE [twin EXCEPT !.fired = FALSE]

\* the pushes a log holds: all of them, and those made at one line
PushCount(log) == Len(SelectSeq(log, LAMBDA c : c.op = "push"))
PushCountAt(log, site) == Len(SelectSeq(log, LAMBDA c : c.op = "push" /\ c.site = site))

\* line 226 found the marker at this result
MarkerFoundAt(d, m, config) ==
    /\ m.type = "result"
    /\ ~gate1(d, m)
    /\ gate2Guard(d, config)
    /\ hasCompletionMarker(d.recentAssistantTexts, config)

\* the bookkeeping of a step that went from log before to log after, having
\* taken results turn results from the transport
Counts(before, after, results) ==
    unanswered' = unanswered - results + (PushCount(after) - PushCount(before))

\* the same bookkeeping for the messages the driver synthesized since the
\* caller's last message
PushCounts(before, after) ==
    IF PushCountAt(after, 260) > PushCountAt(before, 260)
       \/ PushCountAt(after, 145) > PushCountAt(before, 145)
    THEN autoPushed' = 0 /\ smartPushed' = 0
    ELSE /\ autoPushed' = autoPushed + (PushCountAt(after, 217) - PushCountAt(before, 217))
         /\ smartPushed' = smartPushed + (PushCountAt(after, 233) - PushCountAt(before, 233))

\* the assessor's answer in this log was true
SaidDone(log) == \E n \in 1..Len(log) : log[n].op = "isDone" /\ log[n].arg = TRUE

Init ==
    /\ pc = "init"
    /\ store \in Stores
    /\ smartContinueConfig = NullValue
    /\ isCompactCommand = FALSE
    /\ mode = "none"
    /\ thinking = FALSE
    /\ autoContinueCount = 0
    /\ smartContinueCount = 0
    /\ recentAssistantTexts = << >>
    /\ ended = FALSE
    /\ error = ""
    /\ message = NoMessage
    /\ out = << >>
    /\ last = "Init"
    /\ env = EmptyEnv
    /\ resolved = NullValue
    /\ response = NullValue
    /\ verdict = NullValue
    /\ signalAborted = FALSE
    /\ turnMessage = ""
    /\ twin = NoTwin
    /\ smartPathSettled = FALSE
    /\ autoPushed = 0
    /\ smartPushed = 0
    /\ unanswered = 0

Start ==
    /\ pc = "init"
    /\ Becomes(start(Driver))
    /\ last' = "Start"
    /\ UNCHANGED <<store, message, env, resolved, response, verdict, signalAborted,
                   turnMessage, twin, smartPathSettled, autoPushed, smartPushed, unanswered>>

FirstMessageReturnedStep ==
    /\ pc = "firstMessage"
    /\ \E initial \in CallerMessages \cup {NullValue} :
          /\ Becomes(prologue(Driver, initial, store))
          /\ turnMessage' = IF IsNull(initial) THEN "" ELSE initial.message
          /\ twin' = TwinOf(prologue(TwinDriver, initial, store), FALSE)
    /\ Counts(out, out', 0)
    /\ last' = "FirstMessageReturned"
    /\ UNCHANGED <<store, message, env, resolved, response, verdict, signalAborted>>

FirstMessageReturned ==
    FirstMessageReturnedStep /\ UNCHANGED <<smartPathSettled, autoPushed, smartPushed>>

OnMessageStep ==
    /\ pc = "stream"
    /\ \E m \in SDKMessages, e \in DriverEnvs :
          /\ message' = m
          /\ Becomes(loopBody(Driver, m, smartContinueConfig, e))
          /\ twin' = TwinTakes(m)
          /\ Counts(<< >>, out', IF m.type = "result" THEN 1 ELSE 0)
    /\ last' = "OnMessage"
    /\ UNCHANGED <<store, env, resolved, response, verdict, signalAborted, turnMessage>>

OnMessage == OnMessageStep /\ UNCHANGED <<smartPathSettled, autoPushed, smartPushed>>

SessionFileAwaited ==
    /\ pc = "awaitFile"
    /\ \E found \in awaitFileExistResults :
          Becomes(sessionFileAwaited(Driver, message, found))
    /\ Counts(out, out', 0)
    /\ last' = "SessionFileAwaited"
    /\ UNCHANGED <<store, message, env, resolved, response, verdict, signalAborted,
                   turnMessage, twin, smartPathSettled, autoPushed, smartPushed>>

AssessedStep ==
    /\ pc = "assess"
    /\ \E e \in DriverEnvs, resp \in ProviderResponses :
          LET v == assessTaskCompletion(recentAssistantTexts, smartContinueConfig, e, resp)
          IN \* e is the environment the assessment began in
             /\ v.calls = SelectSeq(out, LAMBDA c : c.op = "caller")
             /\ Becomes(assessed(Driver, smartContinueConfig, v))
    /\ Counts(out, out', 0)
    /\ last' = "Assessed"
    /\ UNCHANGED <<store, message, env, resolved, response, verdict, signalAborted,
                   turnMessage, twin>>

Assessed == AssessedStep /\ UNCHANGED <<smartPathSettled, autoPushed, smartPushed>>

NextMessageReturnedStep ==
    /\ pc = "nextMessage"
    /\ \E next \in CallerMessages \cup {NullValue} :
          /\ Becomes(nextMessageReturned(Driver, next))
          /\ turnMessage' = IF IsNull(next) THEN turnMessage ELSE next.message
    /\ Counts(out, out', 0)
    /\ last' = "NextMessageReturned"
    /\ UNCHANGED <<store, message, env, resolved, response, verdict, signalAborted, twin>>

NextMessageReturned ==
    NextMessageReturnedStep /\ UNCHANGED <<smartPathSettled, autoPushed, smartPushed>>

\* the transport closed its iterator after a return from inside the loop
IteratorReturned ==
    /\ pc = "returning"
    /\ Becomes(iteratorReturned(Driver))
    /\ last' = "IteratorReturned"
    /\ UNCHANGED <<store, message, env, resolved, response, verdict, signalAborted,
                   turnMessage, twin, smartPathSettled, autoPushed, smartPushed, unanswered>>

StreamFailed ==
    /\ pc = "stream"
    /\ \E err \in StreamErrors : Becomes(streamFailed(Driver, err))
    /\ last' = "StreamFailed"
    /\ UNCHANGED <<store, message, env, resolved, response, verdict, signalAborted,
                   turnMessage, twin, smartPathSettled, autoPushed, smartPushed, unanswered>>

StreamEnded ==
    /\ pc = "stream"
    /\ Becomes(streamEnded(Driver))
    /\ last' = "StreamEnded"
    /\ UNCHANGED <<store, message, env, resolved, response, verdict, signalAborted,
                   turnMessage, twin, smartPathSettled, autoPushed, smartPushed, unanswered>>

\* opts.signal is raised from outside while the driver runs.  The signal is
\* handed to the transport (line 125) and read nowhere else: the driver goes
\* on taking whatever event the transport still delivers, and the caller
\* answers nextMessage as it likes.
Cancel ==
    /\ pc \in {"firstMessage", "stream", "awaitFile", "assess", "nextMessage", "returning"}
    /\ ~signalAborted
    /\ signalAborted' = TRUE
    /\ UNCHANGED <<pc, last, store, smartContinueConfig, isCompactCommand, mode, thinking,
                   autoContinueCount, smartContinueCount, recentAssistantTexts,
                   ended, error, message, out, env, resolved, response, verdict,
                   turnMessage, twin,
                   smartPathSettled, autoPushed, smartPushed, unanswered>>

Next ==
    \/ Start
    \/ FirstMessageReturned
    \/ OnMessage
    \/ SessionFileAwaited
    \/ Assessed
    \/ NextMessageReturned
    \/ IteratorReturned
    \/ StreamFailed
    \/ StreamEnded
    \/ Cancel

Spec == Init /\ [][Next]_vars

(***************************************************************************)
(* The driver with its retry budgets observed: the same steps, with the    *)
(* messages synthesized since the caller's last message counted and the    *)
(* turn results at which the smart path was settled remembered.            *)
(***************************************************************************)
\* The stores with no checkpoint and those whose thread.json carries a
\* smartContinue section (enabled or not, every buffer size and budget of
\* ScDocs); the stores that load DEFAULT_SMART_CONTINUE as it stands (line
\* 197) are the same code with maxRetries 2 and bufferSize 5.
ObservedStores == { st \in Stores : loadCheckpointConfig(st) # DEFAULT_SMART_CONTINUE }

InitObserved == Init /\ store \in ObservedStores

FirstMessageReturnedObserved ==
    /\ FirstMessageReturnedStep
    /\ PushCounts(out, out')
    /\ UNCHANGED smartPathSettled

OnMessageObserved ==
    /\ OnMessageStep
    /\ PushCounts(<< >>, out')
    /\ smartPathSettled' =
          (smartPathSettled \/ MarkerFoundAt(Driver, message', smartContinueConfig))

AssessedObserved ==
    /\ AssessedStep
    /\ PushCounts(out, out')
    /\ smartPathSettled' = (smartPathSettled \/ SaidDone(out'))

NextMessageReturnedObserved ==
    /\ NextMessageReturnedStep
    /\ PushCounts(out, out')
    /\ UNCHANGED smartPathSettled

NextObserved ==
    \/ Start
    \/ FirstMessageReturnedObserved
    \/ OnMessageObserved
    \/ SessionFileAwaited
    \/ AssessedObserved
    \/ NextMessageReturnedObserved
    \/ IteratorReturned
    \/ StreamFailed
    \/ StreamEnded
    \/ Cancel

SpecObserved == InitObserved /\ [][NextObserved]_vars

\* the driver takes a turn result from the transport
ResultArrives == OnMessageObserved /\ message'.type = "result"

(***************************************************************************)
(* The Provider Selector alone: detectProvider applied to one config and   *)
(* one environment.                                                        *)
(***************************************************************************)
ModelNames ==
    { << >>, ModelHaiku, ModelGptMini, ModelGeminiFlash, PrefixGpt, <<"g","p">>,
      <<"m","y","-">> \o PrefixClaude, <<"C","l","a","u","d","e">>, ModelNumber,
      ModelZero }

SelectorConfigs ==
    { [DEFAULT_SMART_CONTINUE EXCEPT !.provider = p, !.model = mo] :
        p \in {"", "anthropic", "openai", "gemini"}, mo \in ModelNames }

InitSelector ==
    /\ pc = "resolve"
    /\ store = [current |-> "missing", thread |-> "missing", sc |-> NoDoc]
    /\ smartContinueConfig \in SelectorConfigs
    /\ isCompactCommand = FALSE
    /\ mode = "none"
    /\ thinking = FALSE
    /\ autoContinueCount = 0
    /\ smartContinueCount = 0
    /\ recentAssistantTexts = << >>
    /\ ended = FALSE
    /\ error = ""
    /\ message = NoMessage
    /\ out = << >>
    /\ last = "Init"
    /\ env \in Envs
    /\ resolved = NullValue
    /\ response = NullValue
    /\ verdict = NullValue
    /\ signalAborted = FALSE
    /\ turnMessage = ""
    /\ twin = NoTwin
    /\ smartPathSettled = FALSE
    /\ autoPushed = 0
    /\ smartPushed = 0
    /\ unanswered = 0

Resolve ==
    /\ pc = "resolve"
    /\ resolved' = detectProvider(smartContinueConfig, env)
    /\ pc' = "resolved"
    /\ last' = "Resolve"
    /\ UNCHANGED <<store, smartContinueConfig, isCompactCommand, mode, thinking,
                   autoContinueCount, smartContinueCount, recentAssistantTexts,
                   ended, error, message, out, env, response, verdict,
                   signalAborted, turnMessage, twin,
                   smartPathSettled, autoPushed, smartPushed, unanswered>>

NextSelector == Resolve

SpecSelector == InitSelector /\ [][NextSelector]_vars

(***************************************************************************)
(* The Completion Assessor alone: assessTaskCompletion applied to one      *)
(* buffer, one config, one environment and one outcome of the provider     *)
(* call (response: what the provider answers when it is asked).            *)
(***************************************************************************)
AssessorConfigs ==
    { [DEFAULT_SMART_CONTINUE EXCEPT !.provider = p, !.model = mo] :
        p \in {"", "anthropic", "openai", "gemini"},
        mo \in {ModelHaiku, ModelGptMini, ModelNumber, ModelZero} }

AssessorEnvs ==
    { EnvOf("", k, "", ok, "", "", gg) :
        k \in {"", "anthropic-key"}, ok \in {"", "openai-key"}, gg \in {"", "google-key"} }

AssessorBuffers ==
    { << >>, <<TextWorking>>, <<AnswerDone>>, <<TextWorking, TextWithMarker>> }

InitAssessor ==
    /\ pc = "assess"
    /\ store = [current |-> "missing", thread |-> "missing", sc |-> NoDoc]
    /\ smartContinueConfig \in AssessorConfigs
    /\ isCompactCommand = FALSE
    /\ mode = "none"
    /\ thinking = FALSE
    /\ autoContinueCount = 0
    /\ smartContinueCount = 0
    /\ recentAssistantTexts \in AssessorBuffers
    /\ ended = FALSE
    /\ error = ""
    /\ message = NoMessage
    /\ out = << >>
    /\ last = "Init"
    /\ env \in AssessorEnvs
    /\ resolved = NullValue
    /\ response \in ProviderResponses
    /\ verdict = NullValue
    /\ signalAborted = FALSE
    /\ turnMessage = ""
    /\ twin = NoTwin
    /\ smartPathSettled = FALSE
    /\ autoPushed = 0
    /\ smartPushed = 0
    /\ unanswered = 0

\* assessTaskCompletion is called and runs to its first await: without a
\* provider (lines 216-220) it is over at once, otherwise the call of line
\* 238 is made and its answer is waited for
Assess ==
    /\ pc = "assess"
    /\ LET v == assessTaskCompletion(recentAssistantTexts, smartContinueConfig, env,
                                     ResponsePending)
       IN IF v.calls = << >>
          THEN verdict' = v /\ out' = out /\ pc' = "assessed"
          ELSE verdict' = verdict /\ out' = v.calls /\ pc' = "calling"
    /\ last' = "Assess"
    /\ UNCHANGED <<store, smartContinueConfig, isCompactCommand, mode, thinking,
                   autoContinueCount, smartContinueCount, recentAssistantTexts,
                   ended, error, message, env, resolved, response,
                   signalAborted, turnMessage, twin,
                   smartPathSettled, autoPushed, smartPushed, unanswered>>

\* the await of line 238 settles with the outcome of the provider call
CallerReturned ==
    /\ pc = "calling"
    /\ verdict' = assessTaskCompletion(recentAssistantTexts, smartContinueConfig, env, response)
    /\ pc' = "assessed"
    /\ last' = "CallerReturned"
    /\ UNCHANGED <<store, smartContinueConfig, isCompactCommand, mode, thinking,
                   autoContinueCount, smartContinueCount, recentAssistantTexts,
                   ended, error, message, out, env, resolved, response,
                   signalAborted, turnMessage, twin,
                   smartPathSettled, autoPushed, smartPushed, unanswered>>

NextAssessor == Assess \/ CallerReturned

SpecAssessor == InitAssessor /\ [][NextAssessor]_vars

(***************************************************************************)
(* Reading the call log.                                                   *)
(***************************************************************************)
Made(log, op) == \E i \in 1..Len(log) : log[i].op = op

MadeAt(log, op, site) == \E i \in 1..Len(log) : log[i].op = op /\ log[i].site = site

CallsOf(log, ops) == SelectSeq(log, LAMBDA c : c.op \in ops)

\* the driver step taken is the one of this name
Ran(name) == last' = name /\ signalAborted' = signalAborted

\* the step consumes a turn result from the transport
TakesResult == pc = "stream" /\ Ran("OnMessage") /\ message'.type = "result"

\* the step is the return of the Completion Assessor
AssessorReturns == pc = "assess" /\ Ran("Assessed")

VerdictIs(log, b) == \E i \in 1..Len(log) : log[i].op = "isDone" /\ log[i].arg = b

MarkerInBuffer ==
    /\ ~IsNull(smartContinueConfig)
    /\ \E i \in 1..Len(recentAssistantTexts) :
          Includes(recentAssistantTexts[i], smartContinueConfig.completionMarker)

ReadyThenNext == <<Call("onReady", "", 251), Call("nextMessage", "", 254)>>

(***************************************************************************)
(* Claims.                                                                 *)
(***************************************************************************)

\* C1: a turn result {success, num_turns <= 1} received while no compaction
\* command is active: with the streak below MAX_AUTO_CONTINUE the streak grows
\* by exactly one, the only message pushed is the fixed premature-stop message,
\* and the driver goes back to streaming without onReady or nextMessage; with
\* the streak at the limit no message is pushed and the turn completes
\* (onReady, then nextMessage).
C1_Gate1AutoContinue ==
    [][ (/\ TakesResult
         /\ message'.subtype = "success"
         /\ message'.num_turns <= 1
         /\ ~isCompactCommand)
        => IF autoContinueCount < MAX_AUTO_CONTINUE
           THEN /\ autoContinueCount' = autoContinueCount + 1
                /\ CallsOf(out', {"push"}) = <<Call("push", AutoContinueMessage, 217)>>
                /\ ~Made(out', "onReady")
                /\ ~Made(out', "nextMessage")
                /\ pc' = "stream"
           ELSE /\ autoContinueCount = MAX_AUTO_CONTINUE
                /\ CallsOf(out', {"push"}) = << >>
                /\ CallsOf(out', {"onReady", "nextMessage", "assessTaskCompletion"})
                      = ReadyThenNext
                /\ pc' = "nextMessage" ]_vars

\* the streak has reached its limit by gate 1 firing
C1_Witness ==
    /\ last = "OnMessage"
    /\ message.type = "result"
    /\ autoContinueCount = MAX_AUTO_CONTINUE
    /\ MadeAt(out, "push", 217)
    /\ pc = "stream"

\* C2: after a turn result on which gate 1 does not fire the streak is zero:
\* in particular after every result with num_turns > 1, after every result
\* that is not a success, and after a result that found the streak at its
\* limit.
C2_StreakReset ==
    [][ TakesResult
        => /\ ~MadeAt(out', "push", 217) => autoContinueCount' = 0
           /\ message'.num_turns > 1 => autoContinueCount' = 0
           /\ message'.subtype # "success" => autoContinueCount' = 0
           /\ autoContinueCount = MAX_AUTO_CONTINUE => autoContinueCount' = 0 ]_vars

\* a premature-stop result found the streak at its limit: the turn completes
\* and the streak is back to zero
C2_Witness ==
    /\ last = "OnMessage"
    /\ message.type = "result"
    /\ message.subtype = "success"
    /\ message.num_turns <= 1
    /\ ~Made(out, "onCompletionEvent")
    /\ pc = "nextMessage"
    /\ autoContinueCount = 0

\* the conditions of gate 2 that are known when the turn result is taken
Gate2Ready(m) ==
    /\ ~IsNull(smartContinueConfig)
    /\ smartContinueConfig.enabled
    /\ ~isCompactCommand
    /\ smartContinueCount < smartContinueConfig.maxRetries
    /\ m.subtype = "success"
    /\ m.num_turns > 1
    /\ ~MarkerInBuffer

\* C3: at a turn result where gate 1 did not fire the Completion Assessor is
\* consulted exactly when the checkpoint config is active and enabled, no
\* compaction command is active, smartContinueCount < maxRetries, the result is
\* a success with num_turns > 1 and no buffered text contains the marker; when
\* it answers false smartContinueCount grows by exactly one, the only message
\* pushed is the configured continueMessage and the driver goes back to
\* streaming without onReady or nextMessage; in every other case no
\* smart-continue message is pushed and smartContinueCount keeps its value.
C3_Gate2SmartContinue ==
    [][ /\ (TakesResult /\ ~MadeAt(out', "push", 217))
           => /\ (pc' = "assess") <=> Gate2Ready(message')
              /\ smartContinueCount' = smartContinueCount
              /\ ~MadeAt(out', "push", 233)
        /\ (TakesResult /\ MadeAt(out', "push", 217))
           => /\ pc' # "assess"
              /\ smartContinueCount' = smartContinueCount
              /\ ~MadeAt(out', "push", 233)
        /\ AssessorReturns
           => IF VerdictIs(out', FALSE)
              THEN /\ smartContinueCount' = smartContinueCount + 1
                   /\ CallsOf(out', {"push"})
                         = <<Call("push", smartContinueConfig.continueMessage, 233)>>
                   /\ ~Made(out', "onReady")
                   /\ ~Made(out', "nextMessage")
                   /\ pc' = "stream"
              ELSE /\ smartContinueCount' = smartContinueCount
                   /\ CallsOf(out', {"push"}) = << >>
        /\ (~TakesResult /\ ~AssessorReturns)
           => /\ smartContinueCount' = smartContinueCount
              /\ pc' = "assess" => (pc = "assess" /\ out' = out)
              /\ MadeAt(out', "push", 233) => out' = out ]_vars

\* the assessor answered false for a turn result {success, num_turns > 1}
\* and the configured message went out
C3_Witness ==
    /\ last = "Assessed"
    /\ message.type = "result"
    /\ message.num_turns > 1
    /\ smartContinueCount = 1
    /\ smartContinueConfig.continueMessage = "continueMessage:custom"
    /\ MadeAt(out, "push", 233)
    /\ pc = "stream"

\* C4 as stated: whenever a turn result is taken with the marker in the
\* buffer, the assessor is not invoked, no smart-continue message is pushed,
\* smartContinueCount is unchanged and the turn completes directly.
C4_AsStated ==
    [][ (TakesResult /\ MarkerInBuffer)
        => /\ pc' = "nextMessage"
           /\ ~Made(out', "assessTaskCompletion")
           /\ ~MadeAt(out', "push", 233)
           /\ smartContinueCount' = smartContinueCount
           /\ CallsOf(out', {"push", "onReady", "nextMessage"}) = ReadyThenNext ]_vars

\* C4, amended: whenever a turn result is taken with the marker in the buffer,
\* the assessor is not invoked, no smart-continue message is pushed and
\* smartContinueCount is unchanged; the turn completes directly unless gate 1
\* fires for that result, in which case the premature-stop message is pushed.
C4_MarkerSkipsAssessor ==
    [][ (TakesResult /\ MarkerInBuffer)
        => /\ pc' # "assess"
           /\ ~Made(out', "assessTaskCompletion")
           /\ ~MadeAt(out', "push", 233)
           /\ smartContinueCount' = smartContinueCount
           /\ IF MadeAt(out', "push", 217)
              THEN /\ message'.subtype = "success"
                   /\ message'.num_turns <= 1
                   /\ pc' = "stream"
              ELSE /\ pc' = "nextMessage"
                   /\ CallsOf(out', {"push", "onReady", "nextMessage"})
                         = ReadyThenNext ]_vars

\* a turn result that gate 2 would otherwise assess completes directly
\* because an older buffered text carries the marker
C4_Witness ==
    /\ last = "OnMessage"
    /\ ~IsNull(smartContinueConfig)
    /\ message.type = "result"
    /\ message.subtype = "success"
    /\ message.num_turns > 1
    /\ smartContinueConfig.enabled
    /\ smartContinueCount < smartContinueConfig.maxRetries
    /\ Len(recentAssistantTexts) > 1
    /\ Includes(recentAssistantTexts[1], smartContinueConfig.completionMarker)
    /\ ~Includes(recentAssistantTexts[Len(recentAssistantTexts)],
                 smartContinueConfig.completionMarker)
    /\ ~Made(out, "onCompletionEvent")
    /\ pc = "nextMessage"

\* the calls of the terminal fallthrough, in the order they were made
CompletionCalls(log) ==
    CallsOf(log, {"onCompletionEvent", "onReady", "nextMessage", "push", "end"})

\* the value nextMessage returned in this step
Returned(log) == CallsOf(log, {"next"})[1].arg

\* the turn result in hand is one on which neither gate fires; answered says
\* whether a consulted assessor must have returned a verdict for it to count
NeitherGateFires(answered) ==
    \/ TakesResult /\ ~MadeAt(out', "push", 217) /\ pc' # "assess"
    \/ AssessorReturns /\ ~MadeAt(out', "push", 233) /\ (answered => error' = "")

\* what C5 asks of the steps after 'turn complete': the caller's answer and
\* the way out of the loop
AfterTurnComplete ==
    /\ (pc = "nextMessage" /\ Ran("NextMessageReturned"))
       => IF IsNull(Returned(out'))
          THEN /\ pc' = "returning"
               /\ ended'
               /\ CompletionCalls(out') = CompletionCalls(out) \o <<Call("end", "", 256)>>
          ELSE /\ pc' = "stream"
               /\ ~ended'
               /\ CompletionCalls(out')
                     = CompletionCalls(out)
                          \o <<Call("push", Returned(out').message, 260)>>
    /\ (pc = "returning" /\ error = "")
       => /\ pc' \in {"returning", "done"}
          /\ Ran("IteratorReturned") => (pc' = "done" /\ ~Made(out', "throw"))

\* what C5 asks of the turn result itself
TurnCompletes ==
    /\ pc' = "nextMessage"
    /\ ~isCompactCommand'
    /\ CompletionCalls(out')
          = (IF isCompactCommand
             THEN <<Call("onCompletionEvent", "Compaction completed", 245)>>
             ELSE << >>) \o ReadyThenNext

\* C5: at every turn result on which neither gate fires the driver emits
\* 'Compaction completed' exactly when a compaction command was in flight,
\* then calls onReady once, then requests nextMessage; when nextMessage
\* returns null the queue is ended and the driver returns without error (it
\* leaves the loop, and once the transport has closed its iterator it is
\* done, never failed), otherwise the returned message is pushed and
\* streaming resumes.
C5_TerminalFallthrough ==
    [][ (NeitherGateFires(FALSE) => TurnCompletes) /\ AfterTurnComplete ]_vars

\* The same for the turn results at which the assessor, where it was
\* consulted, returned a verdict: this much of C5 holds.
TerminalFallthroughWhenAnswered ==
    [][ (NeitherGateFires(TRUE) => TurnCompletes) /\ AfterTurnComplete ]_vars

\* a compaction turn completed and the caller had no further message
TerminalFallthroughReached ==
    /\ last = "IteratorReturned"
    /\ pc = "done"
    /\ ended
    /\ CompletionCalls(out)
          = <<Call("onCompletionEvent", "Compaction completed", 245),
              Call("onReady", "", 251), Call("nextMessage", "", 254),
              Call("end", "", 256)>>

\* the step consumes an assistant event whose text goes to the buffer
BuffersText ==
    /\ pc = "stream"
    /\ Ran("OnMessage")
    /\ ~IsNull(smartContinueConfig)
    /\ extractAssistantText(message') # << >>

\* C6: the buffer never holds more than bufferSize entries; an entry appended
\* to a full buffer evicts the oldest entry and the others keep their order.
C6_BufferBounded ==
    /\ [](IF IsNull(smartContinueConfig)
          THEN recentAssistantTexts = << >>
          ELSE Len(recentAssistantTexts) <= smartContinueConfig.bufferSize)
    /\ [][ (BuffersText /\ Len(recentAssistantTexts) = smartContinueConfig.bufferSize
                        /\ Len(recentAssistantTexts) > 0)
           => /\ Len(recentAssistantTexts') = Len(recentAssistantTexts)
              /\ \A i \in 1..(Len(recentAssistantTexts) - 1) :
                    recentAssistantTexts'[i] = recentAssistantTexts[i + 1]
              /\ recentAssistantTexts'[Len(recentAssistantTexts')]
                    = extractAssistantText(message')
              /\ CallsOf(out', {"shift"})
                    = <<Call("shift", recentAssistantTexts[1], 180)>> ]_vars

\* a full buffer of several entries took a new text and gave up its oldest,
\* which differed from the one that moved to the front
C6_Witness ==
    /\ last = "OnMessage"
    /\ ~IsNull(smartContinueConfig)
    /\ smartContinueConfig.bufferSize > 1
    /\ Len(recentAssistantTexts) = smartContinueConfig.bufferSize
    /\ Made(out, "shift")
    /\ CallsOf(out, {"shift"})[1].arg # recentAssistantTexts[1]

\* C7: every event taken from the transport is handed to onMessage exactly
\* once, while it is being handled and before any message is pushed, any
\* readiness or next-message call is made, or the driver returns; no other
\* step hands anything to onMessage.
C7_ForwardedInOrder ==
    IF last \in {"OnMessage", "SessionFileAwaited", "Assessed", "NextMessageReturned",
                 "IteratorReturned"}
    THEN /\ CallsOf(out, {"onMessage"}) = <<Call("onMessage", message, 185)>>
         /\ \A i \in 1..Len(out) :
               out[i].op \notin {"onMessage", "shift"}
                  => \E j \in 1..(i - 1) : out[j].op = "onMessage"
    ELSE ~Made(out, "onMessage")

\* an abort marker was forwarded and then ended the session
C7_Witness ==
    /\ last = "IteratorReturned"
    /\ message.type = "user"
    /\ pc = "done"
    /\ out = <<Call("onMessage", message, 185), Call("onThinkingChange", FALSE, 284)>>

\* the credentials the environment holds for a provider
Credentials(p) ==
    (CASE p = "anthropic" -> {env.ANTHROPIC_AUTH_TOKEN, env.ANTHROPIC_API_KEY}
       [] p = "openai" -> {env.OPENAI_API_KEY}
       [] p = "gemini" -> {env.GEMINI_API_KEY, env.GOOGLE_API_KEY}
       [] OTHER -> {}) \ {""}

NamePrefix(p) ==
    CASE p = "anthropic" -> PrefixClaude
      [] p = "openai" -> PrefixGpt
      [] p = "gemini" -> PrefixGemini

\* C8 as stated: with config.provider set and no credential for that
\* provider the selector returns null, and it never returns another provider
\* than the configured one.
C8_ExplicitProviderOnly ==
    (pc = "resolved" /\ smartContinueConfig.provider # "")
       => /\ Credentials(smartContinueConfig.provider) = {} => IsNull(resolved)
          /\ (~IsNull(resolved) /\ ~IsThrown(resolved))
                => resolved.provider = smartContinueConfig.provider

\* C9 as stated: a returned ProviderConfig carries config.model when that
\* name starts with the chosen provider's prefix, and the chosen provider's
\* default model otherwise.
C9_ModelGuard ==
    (pc = "resolved" /\ ~IsNull(resolved) /\ ~IsThrown(resolved))
       => resolved.model
             = (IF StartsWith(smartContinueConfig.model, NamePrefix(resolved.provider))
                THEN smartContinueConfig.model
                ELSE DEFAULT_MODELS[resolved.provider])

\* the selector returned the first of anthropic, openai, gemini that has a
\* credential, with a credential of that provider as apiKey, or null when no
\* provider has one
FirstWithCredential ==
    /\ ~IsThrown(resolved)
    /\ IsNull(resolved)
          <=> \A p \in {"anthropic", "openai", "gemini"} : Credentials(p) = {}
    /\ ~IsNull(resolved)
          => /\ resolved.provider \in {"anthropic", "openai", "gemini"}
             /\ resolved.apiKey \in Credentials(resolved.provider)
             /\ resolved.provider = "openai" => Credentials("anthropic") = {}
             /\ resolved.provider = "gemini"
                   => Credentials("anthropic") = {} /\ Credentials("openai") = {}

\* C10 as stated: with config.provider unset the selector returns the first
\* of anthropic, openai, gemini that has a credential, with a credential of
\* that provider as apiKey, and null exactly when no provider has one; it
\* does not throw.
C10_AutoDetection ==
    (pc = "resolved" /\ smartContinueConfig.provider = "") => FirstWithCredential

\* the same for the configs whose model is a string
AutoDetectionOfStringModels ==
    (pc = "resolved" /\ smartContinueConfig.provider = ""
                    /\ IsString(smartContinueConfig.model)) => FirstWithCredential

\* openai is chosen over gemini because anthropic has no credential
AutoDetectionReached ==
    /\ pc = "resolved"
    /\ smartContinueConfig.provider = ""
    /\ Credentials("anthropic") = {}
    /\ Credentials("gemini") # {}
    /\ ~IsNull(resolved)
    /\ ~IsThrown(resolved)
    /\ resolved.provider = "openai"
    /\ resolved.apiKey = env.OPENAI_API_KEY

\* C11: whenever the selector resolves to null the assessor answers false,
\* whatever the buffer holds and whatever a provider would have answered, no
\* provider call is made and nothing is thrown.
C11_NoProviderMeansNotDone ==
    (pc = "assessed" /\ IsNull(detectProvider(smartContinueConfig, env)))
       => /\ ~verdict.isDone
          /\ verdict.calls = << >>
          /\ ~verdict.threw

\* no credential at all, a buffer that reads DONE and a provider that would
\* have said DONE: the verdict is false
C11_Witness ==
    /\ pc = "assessed"
    /\ IsNull(detectProvider(smartContinueConfig, env))
    /\ recentAssistantTexts = <<AnswerDone>>
    /\ response = [kind |-> "ok", text |-> AnswerDone]
    /\ ~verdict.isDone

\* the raw response texts that trim and upper-case to DONE
RawDone ==
    { <<"D","O","N","E">>, <<" ","d","o","n","e","\n">>,
      <<"D","O","N","E","\r","\n">>, <<"\f","d","o","n","e">>,
      <<"D","O","N","E","U+2003">>, <<"U+3000","d","o","n","e","U+2028">> }

\* C12: the assessor answers true exactly when a provider was called, the
\* call returned and the trimmed, upper-cased text is DONE; for every other
\* outcome of the call (other text, HTTP error, timeout, malformed response)
\* it answers false, and once the provider was called no exception leaves it.
C12_DoneIffProviderSaysDone ==
    pc = "assessed"
       => /\ verdict.isDone
                <=> /\ verdict.calls # << >>
                    /\ response.kind = "ok"
                    /\ response.text \in RawDone
          /\ verdict.calls # << >> => ~verdict.threw

\* the provider call ran into its timeout and the verdict is false
C12_Witness ==
    /\ pc = "assessed"
    /\ verdict.calls # << >>
    /\ response.kind = "timeout"
    /\ ~verdict.isDone
    /\ ~verdict.threw

\* no checkpoint config was loaded, or the one loaded is not enabled
NoCheckpoint == IsNull(smartContinueConfig) \/ ~smartContinueConfig.enabled

\* C13: without an enabled checkpoint config the Completion Assessor is never
\* consulted, no smart-continue message is pushed and smartContinueCount stays
\* 0; and whatever the config, gate 1 decides at every turn result as it does
\* in the run without a checkpoint on the same results, with the same streak
\* and the same compaction flag.
C13_OverlayOptional ==
    /\ NoCheckpoint
          => /\ pc # "assess"
             /\ smartContinueCount = 0
             /\ ~Made(out, "assessTaskCompletion")
             /\ ~MadeAt(out, "push", 233)
    /\ twin.autoContinueCount = autoContinueCount
    /\ twin.isCompactCommand = isCompactCommand
    /\ (last = "OnMessage" /\ message.type = "result")
          => (twin.fired <=> MadeAt(out, "push", 217))

\* a config that is present but not enabled, and a result the assessor would
\* have been asked about: the turn completes
C13_Witness ==
    /\ last = "OnMessage"
    /\ ~IsNull(smartContinueConfig)
    /\ ~smartContinueConfig.enabled
    /\ smartContinueConfig.maxRetries > 0
    /\ message.type = "result"
    /\ message.subtype = "success"
    /\ message.num_turns > 1
    /\ ~MarkerInBuffer
    /\ pc = "nextMessage"

\* the smart-continue budget of the loaded config is used up
SmartBudgetExhausted ==
    /\ ~IsNull(smartContinueConfig)
    /\ smartContinueConfig.enabled
    /\ smartContinueCount = smartContinueConfig.maxRetries

\* a result gate 1 would take, were its streak below the limit
PrematureStop(m) == m.subtype = "success" /\ m.num_turns <= 1 /\ ~isCompactCommand

\* C14: the streak never exceeds 3 and smartContinueCount never exceeds
\* maxRetries; with smartContinueCount at maxRetries no step consults the
\* Completion Assessor or changes the count; a turn result that meets an
\* exhausted budget (a premature stop with the streak at 3, or a result gate 1
\* leaves alone with smartContinueCount at maxRetries) ends in onReady, then
\* nextMessage, and the driver does not throw.
C14_BoundedBudgets ==
    /\ [](/\ autoContinueCount <= MAX_AUTO_CONTINUE
          /\ IF IsNull(smartContinueConfig) THEN smartContinueCount = 0
             ELSE smartContinueCount <= smartContinueConfig.maxRetries)
    /\ [][ /\ SmartBudgetExhausted
              => /\ pc' # "assess"
                 /\ smartContinueCount' = smartContinueCount
                 /\ out' # out => ~Made(out', "assessTaskCompletion")
           /\ ( /\ TakesResult
                /\ \/ PrematureStop(message') /\ autoContinueCount = MAX_AUTO_CONTINUE
                   \/ SmartBudgetExhausted /\ ~MadeAt(out', "push", 217) )
              => /\ pc' = "nextMessage"
                 /\ CallsOf(out', {"onReady", "nextMessage", "push", "throw"}) = ReadyThenNext
         ]_vars

\* the assessor has answered false maxRetries times and the next result it
\* would have been asked about completes the turn
C14_Witness ==
    /\ last = "OnMessage"
    /\ SmartBudgetExhausted
    /\ smartContinueCount > 0
    /\ message.type = "result"
    /\ message.subtype = "success"
    /\ message.num_turns > 1
    /\ ~MarkerInBuffer
    /\ pc = "nextMessage"
    /\ CallsOf(out, {"onReady", "nextMessage"}) = ReadyThenNext

\* the session has been told to end
ToldToEnd == ended \/ pc \in {"returning", "done", "threw"} \/ signalAborted

PushesIn(log) == Len(CallsOf(log, {"push"}))

\* C15: once the queue was ended, the driver terminated on an abort marker
\* or otherwise, or the cancellation signal was raised, no step pushes a
\* message into the outbound queue.
C15_NoPushAfterEnd ==
    [][ ToldToEnd => PushesIn(out') <= PushesIn(out) ]_vars

\* C16: a stream failure with AbortError makes the driver return without
\* throwing; with any other error the driver throws that error; and whenever
\* the driver has returned or thrown, thinking is inactive.
C16_TerminationByFailure ==
    /\ []((pc \in {"done", "threw"}) => ~thinking)
    /\ [][ (pc = "stream" /\ Ran("StreamFailed"))
              => \E err \in StreamErrors :
                    /\ CallsOf(out', {"catch"}) = <<Call("catch", err, 276)>>
                    /\ IF err = "AbortError"
                       THEN pc' = "done" /\ ~Made(out', "throw")
                       ELSE /\ pc' = "threw"
                            /\ CallsOf(out', {"throw"}) = <<Call("throw", err, 281)>>
         ]_vars

\* the stream failed with a TypeError while thinking was active: the error
\* was thrown on and thinking was switched off on the way out
C16_Witness ==
    /\ last = "StreamFailed"
    /\ pc = "threw"
    /\ CallsOf(out, {"throw"}) = <<Call("throw", "TypeError", 281)>>
    /\ MadeAt(out, "onThinkingChange", 284)
    /\ ~thinking

\* C17: when the Completion Assessor returns after the cancellation signal
\* was raised, the driver neither increments smartContinueCount nor pushes a
\* continuation message.
C17_CancelledAssessmentUnwinds ==
    [][ (AssessorReturns /\ signalAborted)
           => /\ smartContinueCount' = smartContinueCount
              /\ ~MadeAt(out', "push", 233) ]_vars

\* the event echoes a tool result of a tool call the caller reports as aborted
AbortMarker(m) ==
    /\ m.type = "user"
    /\ \E i \in 1..Len(m.content) :
          m.content[i].type = "tool_result" /\ m.content[i].tool_use_id = "toolAborted"

\* C18: an event carrying the result of an aborted tool call is forwarded
\* and makes the driver leave the loop in the same step: nothing is pushed,
\* neither onReady nor nextMessage is called, the queue is not touched; while
\* the driver waits for the transport to close and once it has returned, no
\* event is consumed or forwarded and nothing is pushed or requested.
C18_AbortMarkerTerminates ==
    [][ /\ (pc = "stream" /\ Ran("OnMessage") /\ AbortMarker(message'))
           => /\ pc' = "returning"
              /\ ended' = ended
              /\ CallsOf(out', {"onMessage", "push", "onReady", "nextMessage", "end"})
                    = <<Call("onMessage", message', 185)>>
        /\ pc = "returning"
           => /\ pc' \in {"returning", IF error = "" THEN "done" ELSE "threw"}
              /\ message' = message
              /\ ended' = ended
              /\ CallsOf(out', {"onMessage", "push", "onReady", "nextMessage", "end"})
                    = CallsOf(out, {"onMessage", "push", "onReady", "nextMessage", "end"})
        /\ pc # "done" ]_vars

\* the aborted tool call is the second one the event echoes
C18_Witness ==
    /\ last = "IteratorReturned"
    /\ message.type = "user"
    /\ Len(message.content) = 2
    /\ message.content[1].tool_use_id = "toolOk"
    /\ message.content[2].tool_use_id = "toolAborted"
    /\ pc = "done"
    /\ ~Made(out, "push")

\* C19: at the result of a turn whose caller-supplied message is a
\* compaction command neither gate fires: no continuation message is
\* synthesized, neither counter grows and the Completion Assessor is not
\* consulted.
C19_CompactionGuard ==
    [][ (TakesResult /\ parseSpecialCommand(turnMessage) = "compact")
           => /\ ~MadeAt(out', "push", 217)
              /\ ~MadeAt(out', "push", 233)
              /\ autoContinueCount' <= autoContinueCount
              /\ smartContinueCount' = smartContinueCount
              /\ pc' # "assess" ]_vars

\* the messages the driver synthesized while handling the event in hand
Synthesized(log) ==
    SelectSeq(log, LAMBDA c : c.op = "push" /\ c.site \in {217, 233})

\* C20: the handling of one turn result, the assessor's answer included,
\* synthesizes at most one continuation message; when gate 1 fires the driver
\* goes straight back to streaming: the Completion Assessor is not consulted
\* and smartContinueCount keeps its value.
C20_GatePrecedence ==
    [][ /\ (TakesResult \/ AssessorReturns) => Len(Synthesized(out')) <= 1
        /\ (TakesResult /\ MadeAt(out', "push", 217))
           => /\ pc' = "stream"
              /\ ~Made(out', "assessTaskCompletion")
              /\ ~Made(out', "onReady")
              /\ smartContinueCount' = smartContinueCount ]_vars

\* gate 1 fired at a result while an enabled checkpoint still had budget
C20_Witness ==
    /\ last = "OnMessage"
    /\ message.type = "result"
    /\ MadeAt(out, "push", 217)
    /\ ~IsNull(smartContinueConfig)
    /\ smartContinueConfig.enabled
    /\ smartContinueCount < smartContinueConfig.maxRetries
    /\ ~MarkerInBuffer
    /\ pc = "stream"

\* C21: smartContinueCount changes only by +1, in the step in which gate 2
\* pushes its message; autoContinueCount becomes count + 1 exactly in the step
\* in which gate 1 pushes its message and becomes 0 at every other turn
\* result; every other step (assistant output, init, abort marker, caller
\* message, assessor answer, stream end or failure) leaves both alone.
C21_CounterMonotonicity ==
    [][ /\ smartContinueCount' =
              IF AssessorReturns /\ MadeAt(out', "push", 233)
              THEN smartContinueCount + 1 ELSE smartContinueCount
        /\ autoContinueCount' =
              IF TakesResult
              THEN IF MadeAt(out', "push", 217) THEN autoContinueCount + 1 ELSE 0
              ELSE autoContinueCount ]_vars

\* both counters have moved: a streak of two premature stops is running
\* after the assessor has answered false once
C21_Witness ==
    /\ last = "OnMessage"
    /\ message.type = "result"
    /\ autoContinueCount = 2
    /\ smartContinueCount = 1
    /\ MadeAt(out, "push", 217)

\* C22 as stated: once the marker was found at a turn result or the
\* Completion Assessor answered true, no later step consults the assessor or
\* counts a smart continuation.
C22_AsStated ==
    [][ smartPathSettled
           => /\ pc' # "assess"
              /\ smartContinueCount' = smartContinueCount ]_vars

\* gate 2 is open at this result, as far as the config and the counters go
Gate2Open ==
    /\ ~IsNull(smartContinueConfig)
    /\ smartContinueConfig.enabled
    /\ ~isCompactCommand
    /\ smartContinueCount < smartContinueConfig.maxRetries

\* C22: at a turn result gate 1 leaves alone and at which the marker is in
\* the buffer, and when the Completion Assessor answers true, that turn
\* falls through to 'turn complete': nothing is pushed, smartContinueCount
\* keeps its value, onReady and then nextMessage are called.  Nothing is
\* remembered of it: at every later turn result gate 1 leaves alone the
\* assessor is consulted exactly under the conditions of gate 2.
C22_SmartPathSettlesTurn ==
    [][ /\ (TakesResult /\ ~MadeAt(out', "push", 217) /\ Gate2Open /\ MarkerInBuffer)
           => /\ pc' = "nextMessage"
              /\ ~Made(out', "assessTaskCompletion")
              /\ smartContinueCount' = smartContinueCount
              /\ CallsOf(out', {"push", "onReady", "nextMessage"}) = ReadyThenNext
        /\ (AssessorReturns /\ VerdictIs(out', TRUE))
           => /\ pc' = "nextMessage"
              /\ smartContinueCount' = smartContinueCount
              /\ CallsOf(out', {"push", "onReady", "nextMessage"}) = ReadyThenNext
        /\ (TakesResult /\ smartPathSettled /\ ~MadeAt(out', "push", 217))
           => ((pc' = "assess") <=> Gate2Ready(message')) ]_vars

\* the assessor answered true in an earlier turn and is consulted again
C22_Witness ==
    /\ smartPathSettled
    /\ last = "OnMessage"
    /\ message.type = "result"
    /\ pc = "assess"

\* the step is the return of awaitFileExist
HandshakeEnds == pc = "awaitFile" /\ Ran("SessionFileAwaited")

\* what awaitFileExist answered in this log
FoundIn(log) == CallsOf(log, {"found"})[1].arg

\* C23: an init event carrying a session id makes the driver wait for the
\* session file before anything else; onSessionFound(id) is called after the
\* wait and only when the wait confirmed the file; no event is taken from
\* the transport while the driver waits.
C23_SessionHandshake ==
    [][ /\ (pc = "stream" /\ Ran("OnMessage") /\ message'.type = "system"
               /\ message'.subtype = "init" /\ message'.session_id # "")
           => /\ pc' = "awaitFile"
              /\ ~Made(out', "onSessionFound")
              /\ Made(out', "awaitFileExist")
        /\ HandshakeEnds
           => /\ Made(out', "onSessionFound") => FoundIn(out')
              /\ CallsOf(out', {"onMessage"}) = CallsOf(out, {"onMessage"})
        /\ (pc = "awaitFile" /\ ~HandshakeEnds) => (pc' = "awaitFile" /\ message' = message)
      ]_vars

\* maxRetries of the loaded config, 0 when there is none or it is not enabled
SmartBudget ==
    IF IsNull(smartContinueConfig) THEN 0
    ELSE IF smartContinueConfig.enabled THEN smartContinueConfig.maxRetries ELSE 0

\* the turn is complete: onReady was called and the driver waits at line
\* 254 for the caller's next message
TurnComplete == pc = "nextMessage"

\* C24: between two messages of the caller the driver pushes at most
\* 3 * (maxRetries + 1) premature-stop messages and at most maxRetries
\* smart-continue messages; and in every run in which the driver takes turn
\* results again and again, whether or not the cancellation signal was
\* raised, it reaches 'turn complete' again and again: it does not go on
\* synthesizing messages for ever.
C24_ControlReturns ==
    /\ [](/\ autoPushed <= MAX_AUTO_CONTINUE * (SmartBudget + 1)
          /\ smartPushed <= SmartBudget)
    /\ ([]<><<ResultArrives>>_vars) => []<>TurnComplete

\* The second half of C24 for every store, the default configuration
\* included, without the counts of pushed messages.
TurnCompleteRecurs ==
    ([]<><<OnMessage /\ message'.type = "result">>_vars) => []<>TurnComplete

\* both budgets were used to the last message before the turn completed
C24_Witness ==
    /\ SmartBudget > 0
    /\ smartPushed = SmartBudget
    /\ autoPushed = MAX_AUTO_CONTINUE * (SmartBudget + 1)
    /\ pc = "nextMessage"
    /\ Made(out, "onReady")

\* the step is the return of the caller's nextMessage at line 254
CallerAnswers == pc = "nextMessage" /\ Ran("NextMessageReturned")

\* C25: while the driver streams exactly one pushed message is unanswered
\* (pushes = turn results taken + 1), and none while it works on a turn
\* result; a turn result whose handling goes back to streaming has pushed
\* exactly one message, one that ends the session none; no event other than
\* a turn result makes the driver push, the first push is made at the start.
C25_OneMessagePerTurn ==
    /\ [](/\ pc \in {"stream", "awaitFile"} => unanswered = 1
          /\ pc \in {"init", "firstMessage", "assess", "nextMessage"} => unanswered = 0)
    /\ [][ /\ (TakesResult \/ AssessorReturns \/ CallerAnswers)
              => /\ pc' = "stream" => PushCount(out') = 1
                 /\ pc' # "stream" => PushCount(out') = 0
           /\ (pc = "firstMessage" /\ Ran("FirstMessageReturned"))
              => PushCount(out') = IF pc' = "stream" THEN 1 ELSE 0
           /\ ~(TakesResult \/ AssessorReturns \/ CallerAnswers \/ pc = "firstMessage")
              => (out' = out \/ PushCount(out') = 0) ]_vars

\* the caller's second message is in the queue, after one turn result
C25_Witness ==
    /\ last = "NextMessageReturned"
    /\ pc = "stream"
    /\ message.type = "result"
    /\ CallsOf(out, {"push"}) = <<Call("push", turnMessage, 260)>>
    /\ unanswered = 1

\* the calls this step added to the log
NewCalls ==
    IF signalAborted' # signalAborted THEN << >>
    ELSE IF last' \in {"FirstMessageReturned", "SessionFileAwaited", "Assessed",
                        "NextMessageReturned", "IteratorReturned"}
         THEN SubSeq(out', Len(out) + 1, Len(out'))
         ELSE out'

\* the values onThinkingChange was called with, in order
Notified(log) ==
    LET calls == CallsOf(log, {"onThinkingChange"})
    IN [n \in 1..Len(calls) |-> calls[n].arg]

\* values alternates and starts with the negation of before
Alternates(values, before) ==
    \A n \in 1..Len(values) : values[n] = (IF n % 2 = 1 THEN ~before ELSE before)

\* C26: the values onThinkingChange is called with alternate, beginning with
\* the negation of the value thinking had (false at the start, so the first
\* notification of a run is true), and thinking ends a step with the value
\* notified last; thinking is inactive while the driver waits for the
\* caller's next message and was already inactive when onReady was called;
\* the call that follows the push of a synthesized message is
\* onThinkingChange(true).
C26_ThinkingEdgeTriggered ==
    /\ []( /\ pc \in {"init", "firstMessage", "nextMessage"} => ~thinking
           /\ \A n \in 1..Len(out) :
                 out[n].op = "onReady"
                    => /\ \A k \in (n + 1)..Len(out) : out[k].op # "onThinkingChange"
                       /\ pc = "nextMessage" => ~thinking )
    /\ [][ /\ Alternates(Notified(NewCalls), thinking)
           /\ thinking' = IF Notified(NewCalls) = << >> THEN thinking
                          ELSE Notified(NewCalls)[Len(Notified(NewCalls))]
           /\ \A n \in 1..Len(NewCalls) :
                 (NewCalls[n].op = "push" /\ NewCalls[n].site \in {217, 233})
                    => /\ n < Len(NewCalls)
                       /\ NewCalls[n + 1].op = "onThinkingChange"
                       /\ NewCalls[n + 1].arg = TRUE
                       /\ thinking' ]_vars

\* one turn result switched thinking off and, gate 1 firing, on again
C26_Witness ==
    /\ last = "OnMessage"
    /\ message.type = "result"
    /\ Notified(out) = <<FALSE, TRUE>>
    /\ MadeAt(out, "push", 217)
    /\ thinking

\* the event is assistant output with at least one non-empty text block
HasText(m) ==
    /\ m.type = "assistant"
    /\ \E n \in 1..Len(m.content) : m.content[n].type = "text" /\ m.content[n].text # << >>

\* C27: the buffer changes only when an assistant event with non-empty text
\* is taken while a checkpoint config is loaded, and then by one entry added
\* at the end and at most the oldest entry dropped, the oldest being dropped
\* only from a full buffer; every other step (turn result, assessor answer,
\* caller message, init, tool result, end of stream, cancellation) leaves it
\* as it is; and at every turn result at which some buffered entry contains
\* the marker the Completion Assessor is not consulted.
C27_BufferFrame ==
    [][ /\ recentAssistantTexts' # recentAssistantTexts
           => /\ pc = "stream" /\ Ran("OnMessage")
              /\ HasText(message')
              /\ ~IsNull(smartContinueConfig)
              /\ LET grown == Append(recentAssistantTexts, recentAssistantTexts'[Len(recentAssistantTexts')])
                 IN \/ recentAssistantTexts' = grown
                    \/ /\ recentAssistantTexts' = Tail(grown)
                       /\ Len(recentAssistantTexts) >= smartContinueConfig.bufferSize
        /\ (TakesResult /\ MarkerInBuffer)
           => /\ pc' # "assess"
              /\ ~Made(out', "assessTaskCompletion")
              /\ recentAssistantTexts' = recentAssistantTexts ]_vars

\* in a later turn of the session the result finds a marker in the buffer
\* and the assessor, which would have been asked, is not
C27_Witness ==
    /\ turnMessage = "/clear"
    /\ last = "OnMessage"
    /\ message.type = "result"
    /\ message.subtype = "success"
    /\ message.num_turns > 1
    /\ Gate2Open
    /\ MarkerInBuffer
    /\ Len(recentAssistantTexts) > 1
    /\ pc = "nextMessage"

====
